---- MODULE Spec2Model ----
(***************************************************************************)
(* ABRAXAS colour-temperature daemon (C23 build): the io_uring event loop  *)
(* of daemon.c, the asynchronous weather fetcher of weather.c, the         *)
(* persistence layer of config.c, the CLI commands of main.c and the       *)
(* auto-resume scheduling of sigmoid.c.                                    *)
(*                                                                         *)
(* Wall-clock time is in seconds.  The daemon's computation is             *)
(* instantaneous: time advances only while the daemon is blocked in a      *)
(* system call (or not running).  The kernel side of io_uring is modelled  *)
(* by the number of armed multishot polls per descriptor and by the        *)
(* completions present in the completion queue, per user_data tag.         *)
(***************************************************************************)
EXTENDS Integers, FiniteSets, Sequences, TLC

----------------------------------------------------------------------------
(* Bounds of the model *)

StartTime == 50000      \* wall clock (seconds into the day) when the model starts
MaxTime   == 150        \* the model follows the clock up to StartTime + MaxTime
TimeStep  == 45         \* advance of the clock while no timeout and no child runs
MaxOps    == 3          \* CLI invocations, signals and failed waits in one behaviour
MaxCrtcs  == 2          \* CRTCs (outputs) a display backend reports
PollCap   == 2          \* armed polls per descriptor, and unread inotify
                        \* completions, are counted up to PollCap

----------------------------------------------------------------------------
(* Program constants *)

TEMP_MIN            == 1000
TEMP_MAX            == 25000
TEMP_DAY_CLEAR      == 6500
TEMP_DAY_DARK       == 4500
TEMP_NIGHT          == 2900
CLOUD_THRESHOLD     == 75
WEATHER_REFRESH_SEC == 900
TEMP_UPDATE_SEC     == 60
DAWN_DURATION       == 90
DUSK_DURATION       == 120
CURL_MAX_TIME       == 5
GNOME_GAMMA_SIZE       == 256
MAX_OVERRIDE_FILE_SIZE == 4096
MAX_WEATHER_FILE_SIZE  == 8192
GAMMA_INIT_MAX_RETRIES == 60
GAMMA_INIT_RETRY_NS    == 500000000
SECONDS_PER_DAY     == 86400

WEATHER_IDLE             == "IDLE"
WEATHER_READING_POINTS   == "READING_POINTS"
WEATHER_READING_FORECAST == "READING_FORECAST"

----------------------------------------------------------------------------
(* Inputs *)

\* --set TEMP [MIN]: temperatures and durations the CLI is invoked with
SetTemps     == {3500, 4000}
SetDurations == {0, 2}

\* temperatures an override.json written by hand or by another program holds
EditTemps == {500, 30000}

\* Ephemeris of the day (seconds after local midnight).  The astronomy of
\* solar.c is an input: the model only uses how the instants are assembled.
\* DuskSoon: the dusk resume point lies 90 s after StartTime
DuskSoon == [valid |-> TRUE,  rise |-> 21600, set |-> StartTime + 4590]
\* DuskPast: both resume points of today have passed
DuskPast == [valid |-> TRUE,  rise |-> 21600, set |-> StartTime + 4000]
\* Polar: no sunrise and no sunset
Polar    == [valid |-> FALSE, rise |-> 0,     set |-> 0]

SunChoices == {DuskSoon, DuskPast, Polar}

\* Ephemerides for next_transition_resume alone: the sunrise of a mid-latitude
\* day or a sunrise half an hour after local midnight (a high latitude near
\* the midnight sun, or a longitude that does not belong to the time zone of
\* the machine), with a sunset in the evening; or none
Ephemerides ==
    {Polar} \cup [valid : {TRUE}, rise : {1800, 21600}, set : {64800, 79200}]

\* instants of the day at which next_transition_resume is asked
ResumeTimes == {6000 + 7200 * k : k \in 0..11}

\* days the question is asked on
ResumeDays == 0..3

\* Cloud cover derived from a forecast body
CloudChoices == {10, 90}

Min(a, b) == IF a < b THEN a ELSE b
Max(a, b) == IF a > b THEN a ELSE b

VARIABLES
    now,          \* wall clock, seconds
    sun,          \* ephemeris of the day
    inotifyOk,    \* inotify_add_watch succeeds on this system
    pc,           \* daemon position: stopped, wait, process_inotify, cancel, tick, waitpid
    st,           \* daemon_state_t
    wfs,          \* weather_fetch_state_t
    ev,           \* locals of one loop iteration
    overrideFile, \* override.json
    cacheFile,    \* weather_cache.json
    inotifyQ,     \* unread inotify events: the names, oldest first
    sigPending,   \* a blocked SIGTERM/SIGINT is pending on the signalfd
    polls,        \* armed multishot polls per descriptor
    cq,           \* completion queue: completions per tag
    timer,        \* the IORING_OP_TIMEOUT request
    child,        \* the curl child process
    pipe,         \* the pipe from the child
    hist,         \* history of the run (observations used by the properties)
    ops,          \* CLI invocations, signals and failed waits so far
    gamma,        \* the gamma backend (gamma_state) and what it shows
    pidFile,      \* the PID file exists
    boot,         \* daemon_run before the loop: the probes of the backend
    mer           \* libmeridian: the displays, the handle and what was called

vars == << now, sun, inotifyOk, pc, st, wfs, ev, overrideFile, cacheFile, inotifyQ,
           sigPending, polls, cq, timer, child, pipe, hist, ops, gamma, pidFile,
           boot, mer >>

----------------------------------------------------------------------------
(* Persistence: config.c *)

\* bytes of a file written by config_save_override or
\* config_save_weather_cache
SavedBytes == 128

\* A file of the configuration directory: whether it exists, its size in
\* bytes, whether json_parse accepts its text, and the keys the text holds.
NoOverride == [exists |-> FALSE, size |-> 0, wellformed |-> TRUE,
               active |-> FALSE, target_temp |-> 0,
               duration_minutes |-> 0, issued_at |-> 0, start_temp |-> 0]

NoCache == [exists |-> FALSE, size |-> 0, wellformed |-> TRUE,
            error |-> FALSE, cloud_cover |-> 0, fetched_at |-> 0]

\* the file is there but empty, larger than max bytes, or not JSON
Damaged(file, max) ==
    file.exists /\ (file.size <= 0 \/ file.size > max \/ ~file.wellformed)

\* a config_load_override that takes the keys of any file it finds
config_load_override_Lenient(file) ==
    IF ~file.exists
    THEN [active |-> FALSE, target_temp |-> 0, duration_minutes |-> 0,
          issued_at |-> 0, start_temp |-> 0]
    ELSE [active |-> file.active, target_temp |-> file.target_temp,
          duration_minutes |-> file.duration_minutes,
          issued_at |-> file.issued_at, start_temp |-> file.start_temp]

\* override_state_t read from override.json; a missing file, an empty one,
\* one of more than MAX_OVERRIDE_FILE_SIZE bytes and one that json_parse
\* rejects give active = false
config_load_override(file) ==
    IF \/ ~file.exists
       \/ file.size <= 0
       \/ file.size > MAX_OVERRIDE_FILE_SIZE
       \/ ~file.wellformed
    THEN [active |-> FALSE, target_temp |-> 0, duration_minutes |-> 0,
          issued_at |-> 0, start_temp |-> 0]
    ELSE [active |-> file.active, target_temp |-> file.target_temp,
          duration_minutes |-> file.duration_minutes,
          issued_at |-> file.issued_at, start_temp |-> file.start_temp]

\* an override file written without the start temperature
config_save_override_NoStart(ovr) ==
    [exists |-> TRUE, size |-> SavedBytes, wellformed |-> TRUE,
     active |-> ovr.active, target_temp |-> ovr.target_temp,
     duration_minutes |-> ovr.duration_minutes, issued_at |-> ovr.issued_at,
     start_temp |-> 0]

\* the file written for an override_state_t
config_save_override(ovr) ==
    [exists |-> TRUE, size |-> SavedBytes, wellformed |-> TRUE,
     active |-> ovr.active, target_temp |-> ovr.target_temp,
     duration_minutes |-> ovr.duration_minutes, issued_at |-> ovr.issued_at,
     start_temp |-> ovr.start_temp]

\* unlink(override.json)
config_clear_override == NoOverride

\* weather_data_t read from weather_cache.json; a missing file, an empty one,
\* one of more than MAX_WEATHER_FILE_SIZE bytes and one that json_parse
\* rejects give has_error = true and nothing else
config_load_weather_cache(file) ==
    IF \/ ~file.exists
       \/ file.size <= 0
       \/ file.size > MAX_WEATHER_FILE_SIZE
       \/ ~file.wellformed
    THEN [cloud_cover |-> 0, fetched_at |-> 0, has_error |-> TRUE]
    ELSE [cloud_cover |-> file.cloud_cover, fetched_at |-> file.fetched_at,
          has_error |-> file.error \/ file.fetched_at = 0]

\* the file written for a weather_data_t: an erroneous one carries the error
\* key and cloud_cover 0
config_save_weather_cache(wd) ==
    IF wd.has_error
    THEN [exists |-> TRUE, size |-> SavedBytes, wellformed |-> TRUE,
          error |-> TRUE, cloud_cover |-> 0, fetched_at |-> wd.fetched_at]
    ELSE [exists |-> TRUE, size |-> SavedBytes, wellformed |-> TRUE,
          error |-> FALSE, cloud_cover |-> wd.cloud_cover,
          fetched_at |-> wd.fetched_at]

config_weather_needs_refresh(wd, t) ==
    \/ wd.has_error
    \/ wd.fetched_at = 0
    \/ t - wd.fetched_at > WEATHER_REFRESH_SEC

----------------------------------------------------------------------------
(* Ephemeris and sigmoid engine: solar.c, sigmoid.c *)

\* sunrise and sunset of the day that contains `when`
solar_sunrise_sunset(when, eph) ==
    LET midnight == (when \div SECONDS_PER_DAY) * SECONDS_PER_DAY
    IN  IF ~eph.valid
        THEN [sunrise |-> 0, sunset |-> 0, valid |-> FALSE]
        ELSE [sunrise |-> midnight + eph.rise, sunset |-> midnight + eph.set,
              valid |-> TRUE]

\* sigmoid_norm(x, SIGMOID_STEEPNESS) in 1/1000, for x given in 1/1000 on
\* [-1000, 1000]: the normalised logistic curve, tabulated at steps of 0.25
\* and interpolated linearly in between.
SigmoidTable ==
    << 0, 9, 45, 180, 500, 820, 955, 991, 1000 >>

sigmoid_norm(x) ==
    LET xc  == Max(-1000, Min(1000, x))
        i   == (xc + 1000) \div 250
        lo  == SigmoidTable[i + 1]
        hi  == SigmoidTable[Min(i + 2, 9)]
        off == (xc + 1000) - i * 250
    IN  lo + ((hi - lo) * off) \div 250

\* C integer division and conversion truncate toward zero
TruncDiv(a, b) == IF a >= 0 THEN a \div b ELSE -((-a) \div b)

Abs(a) == IF a < 0 THEN -a ELSE a

\* arguments in seconds (the code passes minutes as doubles)
calculate_solar_temp(sec_from_sunrise, sec_to_sunset, is_dark_mode) ==
    LET day_temp   == IF is_dark_mode THEN TEMP_DAY_DARK ELSE TEMP_DAY_CLEAR
        night_temp == TEMP_NIGHT
        dawn_half  == (DAWN_DURATION * 60) \div 2
        dusk_half  == (DUSK_DURATION * 60) \div 2
    IN  IF Abs(sec_from_sunrise) < dawn_half
        THEN night_temp + TruncDiv((day_temp - night_temp)
                 * sigmoid_norm(TruncDiv(sec_from_sunrise * 1000, dawn_half)), 1000)
        ELSE IF Abs(sec_to_sunset) < dusk_half
        THEN night_temp + TruncDiv((day_temp - night_temp)
                 * sigmoid_norm(TruncDiv(sec_to_sunset * 1000, dusk_half)), 1000)
        ELSE IF sec_from_sunrise >= dawn_half /\ sec_to_sunset >= dusk_half
        THEN day_temp
        ELSE night_temp

\* a manual temperature that stays at the start of the transition
calculate_manual_temp_Start(start_temp, target_temp, start_time, duration_min, t) ==
    start_temp

calculate_manual_temp(start_temp, target_temp, start_time, duration_min, t) ==
    IF duration_min <= 0 THEN target_temp
    ELSE IF t - start_time >= duration_min * 60 THEN target_temp
    ELSE start_temp + TruncDiv((target_temp - start_temp)
             * sigmoid_norm(TruncDiv(2 * (t - start_time) * 1000, duration_min * 60) - 1000),
             1000)

\* next_transition_resume without the test that a candidate lies in the future
next_transition_resume_AnyDawn(t, eph) ==
    LET s == solar_sunrise_sunset(t, eph)
    IN  IF ~s.valid THEN t + SECONDS_PER_DAY
        ELSE s.sunrise - (DAWN_DURATION \div 2) * 60 - 15 * 60

next_transition_resume(t, eph) ==
    LET s           == solar_sunrise_sunset(t, eph)
        resume_dawn == s.sunrise - (DAWN_DURATION \div 2) * 60 - 15 * 60
        resume_dusk == s.sunset  - (DUSK_DURATION \div 2) * 60 - 15 * 60
        best1       == IF resume_dawn > t THEN resume_dawn ELSE 0
        best        == IF resume_dusk > t /\ (best1 = 0 \/ resume_dusk < best1)
                       THEN resume_dusk ELSE best1
        s2          == solar_sunrise_sunset(t + SECONDS_PER_DAY, eph)
    IN  IF ~s.valid THEN t + SECONDS_PER_DAY
        ELSE IF best > 0 THEN best
        ELSE IF ~s2.valid THEN t + SECONDS_PER_DAY
        ELSE s2.sunrise - (DAWN_DURATION \div 2 + 15) * 60

\* solar_temperature of daemon.c
solar_temperature(t, eph, weather) ==
    LET s == solar_sunrise_sunset(t, eph)
    IN  IF ~s.valid THEN TEMP_NIGHT
        ELSE calculate_solar_temp(t - s.sunrise, s.sunset - t,
                                  weather.cloud_cover >= CLOUD_THRESHOLD)

----------------------------------------------------------------------------
(* State of the daemon and of the kernel objects it uses *)

\* daemon_state_t as main() builds it (zero-initialised, last_temp_valid = false)
InitState ==
    [manual_mode |-> FALSE, manual_start_temp |-> 0, manual_target_temp |-> 0,
     manual_start_time |-> 0, manual_duration_min |-> 0, manual_issued_at |-> 0,
     manual_resume_time |-> 0, last_temp |-> 0, last_temp_valid |-> FALSE,
     weather |-> [cloud_cover |-> 0, fetched_at |-> 0, has_error |-> FALSE]]

NoBody == [ok |-> FALSE, cloud |-> 0]

\* what a curl child can write: an unusable body, or a usable one (a points
\* document with a forecastHourly URL / a forecast with a first period)
Bodies == {NoBody} \cup {[ok |-> TRUE, cloud |-> c] : c \in CloudChoices}

\* weather_async_init
weather_async_init ==
    [phase |-> WEATHER_IDLE, child_pid |-> 0, pipe_fd |-> -1,
     buf |-> NoBody, buf_size |-> 0]

NoChild == [state |-> "none", spawned |-> 0, exit_ok |-> FALSE]
NoPipe  == [data |-> FALSE, body |-> NoBody, written |-> FALSE]

\* locals of one loop iteration (daemon.c 193-197, 245)
EvInit ==
    [timer_expired |-> FALSE, got_signal |-> FALSE, weather_ready |-> FALSE,
     config_changed |-> FALSE, override_changed |-> FALSE, now |-> 0]

NoPolls == [in |-> 0, sig |-> 0, w |-> 0]
NoCq    == [in |-> 0, sig |-> FALSE, w |-> FALSE, t |-> FALSE]
NoTimer == [armed |-> FALSE, deadline |-> 0]

\* no backend (gamma_state = nullptr); temp is the temperature last handed to
\* meridian_set_temperature, 0 while the display shows its own ramps
NoGamma == [open |-> FALSE, temp |-> 0]

\* daemon_run has not probed the backend: the attempt of the retry loop, the
\* calls of gamma_init made, the milliseconds slept between them and how
\* daemon_run ended before the loop ("none", "signal": exit(0), "fatal": exit(1))
NoBoot == [attempt |-> 0, probes |-> 0, slept |-> 0, exit |-> "none"]

\* libmeridian before meridian_init: no handle.  env is what the machine
\* offers to meridian_init_card, crtcs the CRTCs of the handle (of
\* the handle freed, after meridian_free), calls the calls of the last
\* operation in their order, ret its return code, attempted and written the
\* CRTCs the last set_temperature tried and wrote.
NoMeridian ==
    [backend |-> "none", last |-> "none", ret |-> "MERIDIAN_OK",
     crtcs |-> << >>, calls |-> << >>, attempted |-> {}, written |-> {},
     env |-> [wayland_display |-> FALSE,
              wl    |-> [ok |-> FALSE, sizes |-> << >>],
              gnome |-> [ok |-> FALSE, sizes |-> << >>],
              drm   |-> [ok |-> FALSE, sizes |-> << >>],
              x11   |-> [ok |-> FALSE, sizes |-> << >>]]]

NoHist ==
    [lastDone |-> 0,       \* when the last fetch finished (0: none yet in this run)
     sigAtWake |-> FALSE,  \* a signal was pending when the current iteration woke
     setTemp |-> 0,        \* target of the latest --set issued to the running
     setDur |-> 0,         \*   daemon and not yet undone (0: none), its duration,
     setAt |-> 0,          \*   and when it was issued
     resumeAt |-> 0,       \* when a resume was requested of the daemon in manual
     resumeKind |-> "none",\*   mode (0: none), and how: "write" or "delete"
     lastRead |-> "none",  \* outcome of weather_async_read in this iteration:
                           \*   none, eagain, error, failed, advanced, done
     calls |-> << >>,      \* calls made in this iteration, or by the termination
                           \*   of daemon_run, in their order
     adopted |-> FALSE,    \* a new override was adopted in this iteration
     rejected |-> FALSE,   \* an override.json that is empty, too large or not JSON
                           \*   was read in this iteration
     reread |-> FALSE,     \* the override the daemon follows was read again in
                           \*   this iteration
     autoResumed |-> FALSE,\* manual mode was left by auto-resume in this iteration
     temp |-> 0,           \* the temperature computed in this iteration (0: none)
     tnow |-> 0,           \*   and the time it was computed for
     recovered |-> FALSE,  \* daemon_run recovered an override with its start_temp
     fetching |-> FALSE,   \* a fetch was in flight when the loop returned
     atSignal |-> EvInit,  \* the flags of the iteration that a signal ended
     refreshAt |-> 0,      \* when the CLI's refresh last rewrote the cache for the
     refreshCloud |-> 0,   \*   running daemon (0: never), and the cloud cover it wrote
     startup |-> "none"]   \* what daemon_run made of override.json, until the first
                           \*   wake: none, solar, cleared, manual

Running == pc # "stopped"

\* the daemon holds an inotify descriptor (daemon.c 432, 181)
Watching == Running /\ inotifyOk

\* every armed multishot poll of a descriptor posts one completion per wakeup
PostIn(c, p)  == [c EXCEPT !.in  = Min(c.in  + p.in,  PollCap)]
PostSig(c, p) == [c EXCEPT !.sig = @ \/ p.sig > 0]
PostW(c, p)   == [c EXCEPT !.w   = @ \/ p.w > 0]

CqEmpty(c) == c.in = 0 /\ ~c.sig /\ ~c.w /\ ~c.t

\* the read end of the pipe is readable: unread data, or every write end closed
PipeReadable(ch, pp) == pp.data \/ ch.state # "running"

----------------------------------------------------------------------------
(* One loop iteration works on a "world": the variables it reads and writes *)

World ==
    [st |-> st, wfs |-> wfs, ovf |-> overrideFile, cache |-> cacheFile,
     child |-> child, pipe |-> pipe, inq |-> inotifyQ, cq |-> cq,
     polls |-> polls, hist |-> hist, gamma |-> gamma, pid |-> pidFile]

\* a call is made: it is entered in the record of calls
Call(W, name) == [W EXCEPT !.hist.calls = Append(@, name)]

\* gamma_set: the temperature goes to the dispatcher as it is
gamma_set(W, temp) ==
    IF W.gamma.open
    THEN Call([W EXCEPT !.gamma.temp = temp], "gamma_set")
    ELSE W

\* gamma_restore: the ramps saved at init are put back
gamma_restore(W) ==
    IF W.gamma.open
    THEN Call([W EXCEPT !.gamma.temp = 0], "gamma_restore")
    ELSE W

\* gamma_cleanup: the backend is freed
gamma_cleanup(W) ==
    IF W.gamma.open
    THEN Call([W EXCEPT !.gamma.open = FALSE], "gamma_free")
    ELSE W

\* config_remove_pid
config_remove_pid(W) == Call([W EXCEPT !.pid = FALSE], "remove_pid")

\* an end of daemon_run that frees the backend before it restores the ramps
CleanShutdown_FreeFirst(W) == config_remove_pid(gamma_restore(gamma_cleanup(W)))

\* daemon.c 498-506: the end of daemon_run (weather_cleanup does nothing)
CleanShutdown(W) == config_remove_pid(gamma_cleanup(gamma_restore(W)))

\* inotify merges an event into an identical one at the tail of the queue
Merged(q, name) == q # << >> /\ q[Len(q)] = name

InQueue(q, name) == \E i \in DOMAIN q : q[i] = name

\* a close_write on a file of the watched directory: unless merged the event
\* is queued and every armed poll of the inotify descriptor completes
FileWritten(W, name) ==
    IF inotifyOk /\ ~Merged(W.inq, name)
    THEN [W EXCEPT !.inq = Append(@, name), !.cq = PostIn(@, W.polls)]
    ELSE W

\* daemon.c 247-255: on a config change the weather cache is re-read
\* (the location itself is not part of the model)
ReloadConfig(W, e) ==
    IF e.config_changed
    THEN [W EXCEPT !.st.weather = config_load_weather_cache(W.cache)]
    ELSE W

\* an adoption test that looks at the active flag only
AdoptCondition_AnyActive(od, s) == od.active

\* daemon.c 260: a new override is adopted
AdoptCondition(od, s) == od.active /\ od.issued_at # s.manual_issued_at

\* daemon.c 257-295
OverrideChanged(V, e, t) ==
    LET od    == config_load_override(V.ovf)
        W     == [V EXCEPT !.hist.rejected =
                      e.override_changed
                          /\ Damaged(V.ovf, MAX_OVERRIDE_FILE_SIZE),
                               !.hist.reread =
                      /\ e.override_changed
                      /\ V.st.manual_mode
                      /\ od.active
                      /\ od.issued_at = V.st.manual_issued_at]
        s     == W.st
        start == IF s.last_temp_valid THEN s.last_temp
                 ELSE solar_temperature(t, sun, s.weather)
        s2    == [s EXCEPT !.manual_mode = TRUE,
                           !.manual_issued_at = od.issued_at,
                           !.manual_target_temp = od.target_temp,
                           !.manual_duration_min = od.duration_minutes,
                           !.manual_start_time = od.issued_at,
                           !.manual_start_temp = start,
                           !.manual_resume_time = next_transition_resume(t, sun)]
    IN  IF ~e.override_changed THEN W
        ELSE IF AdoptCondition(od, s)
        THEN IF od.start_temp = 0
             THEN FileWritten(
                    [W EXCEPT !.st = s2,
                              !.ovf = config_save_override(
                                          [od EXCEPT !.start_temp = start]),
                              !.hist.adopted = TRUE],
                    "override")
             ELSE [W EXCEPT !.st = s2, !.hist.adopted = TRUE]
        ELSE IF ~od.active /\ s.manual_mode
        THEN [W EXCEPT !.st = [s EXCEPT !.manual_mode = FALSE,
                                        !.manual_issued_at = 0],
                       !.ovf = config_clear_override,
                       !.hist = [@ EXCEPT !.resumeAt = 0, !.resumeKind = "none"]]
        ELSE W

\* a spawn that always enters the forecast phase
Spawned_AlwaysForecast(W, t, phase) ==
    [W EXCEPT !.wfs = [@ EXCEPT !.phase = WEATHER_READING_FORECAST,
                                !.child_pid = 1, !.pipe_fd = 3],
              !.child = [state |-> "running", spawned |-> t, exit_ok |-> FALSE],
              !.pipe = NoPipe,
              !.polls = [@ EXCEPT !.w = 0]]

\* spawn_curl_async: a running child with an empty pipe to the daemon
Spawned(W, t, phase) ==
    [W EXCEPT !.wfs = [@ EXCEPT !.phase = phase, !.child_pid = 1, !.pipe_fd = 3],
              !.child = [state |-> "running", spawned |-> t, exit_ok |-> FALSE],
              !.pipe = NoPipe,
              !.polls = [@ EXCEPT !.w = 0]]

\* weather_async_start, as called at daemon.c 299-305
weather_async_start(W, t, spawn_ok) ==
    IF W.wfs.phase # WEATHER_IDLE THEN W
    ELSE IF ~spawn_ok THEN W
    ELSE Spawned([W EXCEPT !.wfs = [@ EXCEPT !.buf = NoBody, !.buf_size = 0]],
                 t, WEATHER_READING_POINTS)

\* a start that looks neither at the phase nor at a child still there
StartFetchIfNeeded_AnyPhase(W, t, spawn_ok) ==
    IF config_weather_needs_refresh(W.st.weather, t) /\ spawn_ok
    THEN Spawned(W, t, WEATHER_READING_POINTS)
    ELSE W

\* daemon.c 297-305: a fetch is started when none is in flight and the
\* weather is due
StartFetchIfNeeded(W, t, spawn_ok) ==
    IF W.wfs.phase = WEATHER_IDLE /\ config_weather_needs_refresh(W.st.weather, t)
    THEN weather_async_start(W, t, spawn_ok)
    ELSE W

\* wfs_reset: close the pipe, kill and reap the child, free the buffer
wfs_reset(W) ==
    LET W1 == IF W.wfs.pipe_fd >= 0
              THEN Call([W EXCEPT !.pipe = NoPipe, !.polls.w = 0], "close_pipe")
              ELSE W
        W2 == IF W.wfs.child_pid > 0
              THEN Call(Call([W1 EXCEPT !.child = NoChild], "kill"), "waitpid")
              ELSE W1
    IN  Call([W2 EXCEPT !.wfs = weather_async_init], "free_buf")

wfs_error_result(t) == [cloud_cover |-> 0, fetched_at |-> t, has_error |-> TRUE]

\* daemon.c 311-320: a finished fetch (rc = -1) replaces the weather and is cached
Deliver(W, result, outcome) ==
    FileWritten(
        [W EXCEPT !.st.weather = result,
                  !.cache = config_save_weather_cache(result),
                  !.hist = [@ EXCEPT !.lastDone = now, !.lastRead = outcome]],
        "cache")

\* a drain that gives the fetch up when no more data is available
Drained_GivesUp(W) ==
    [W EXCEPT !.wfs = [@ EXCEPT !.phase = WEATHER_IDLE, !.pipe_fd = -1]]

\* wfs_drain_pipe: the data read so far
Drained(W) ==
    IF W.pipe.data
    THEN [W EXCEPT !.wfs = [@ EXCEPT !.buf = W.pipe.body, !.buf_size = 1],
                   !.pipe = [@ EXCEPT !.data = FALSE]]
    ELSE W

\* a drain that reports end of file whatever the child does
AtEof_Always(W) == TRUE

\* wfs_drain_pipe returns 1: read() returned 0, every write end is closed
AtEof(W) == W.child.state # "running"

\* weather.c 391-487: what follows waitpid, curl_ok telling whether the
\* child exited with status 0 and left a body
AfterCurl(W, curl_ok, spawn_ok) ==
    IF ~curl_ok
    THEN Deliver(wfs_reset(W), wfs_error_result(now), "failed")
    ELSE IF W.wfs.phase = WEATHER_READING_POINTS
    THEN IF ~W.wfs.buf.ok
         THEN Deliver(wfs_reset(W), wfs_error_result(now), "error")
         ELSE IF ~spawn_ok
         THEN Deliver(wfs_reset(W), wfs_error_result(now), "error")
         ELSE [Spawned([W EXCEPT !.wfs = [@ EXCEPT !.buf = NoBody, !.buf_size = 0]],
                       now, WEATHER_READING_FORECAST)
                 EXCEPT !.hist = [@ EXCEPT !.lastRead = "advanced"]]
    ELSE LET W1 == [W EXCEPT !.wfs = [@ EXCEPT !.buf = NoBody, !.buf_size = 0,
                                               !.phase = WEATHER_IDLE]]
         IN  IF ~W.wfs.buf.ok
             THEN Deliver(W1, wfs_error_result(now), "error")
             ELSE Deliver(W1, [cloud_cover |-> W.wfs.buf.cloud,
                               fetched_at |-> now, has_error |-> FALSE], "done")

\* the same with the exit status of the child ignored
AfterReap_IgnoreExit(W, exit_ok, spawn_ok) ==
    AfterCurl(W, W.wfs.buf_size > 0, spawn_ok)

\* weather_async_read after the child has been reaped (weather.c 387-397)
AfterReap(W, exit_ok, spawn_ok) ==
    AfterCurl(W, exit_ok /\ W.wfs.buf_size > 0, spawn_ok)

\* a temperature part that follows the sun whatever the mode
TempPart_SolarOnly(W, t) ==
    LET temp == solar_temperature(t, sun, W.st.weather)
    IN  gamma_set([W EXCEPT !.st.last_temp = temp, !.st.last_temp_valid = TRUE,
                            !.hist.temp = temp, !.hist.tnow = t],
                  temp)

\* a temperature part whose auto-resume does not wait for the transition
TempPart_ResumeEarly(W, t) ==
    LET s      == W.st
        resume == s.manual_mode /\ t >= s.manual_resume_time
        temp   == IF s.manual_mode /\ ~resume
                  THEN calculate_manual_temp(s.manual_start_temp, s.manual_target_temp,
                                             s.manual_start_time, s.manual_duration_min, t)
                  ELSE solar_temperature(t, sun, s.weather)
    IN  gamma_set([W EXCEPT !.st = [s EXCEPT !.manual_mode = @ /\ ~resume,
                                            !.last_temp = temp,
                                            !.last_temp_valid = TRUE],
                            !.ovf = IF resume THEN config_clear_override ELSE @,
                            !.hist = [@ EXCEPT !.temp = temp, !.tnow = t,
                                               !.autoResumed = resume]],
                  temp)

\* a loop that applies its target in every iteration
ApplyCondition_Always(s, temp) == TRUE

\* daemon.c 346: the target is applied when none has been applied by the loop
\* yet or when it differs from the last one applied
ApplyCondition(s, temp) == ~s.last_temp_valid \/ temp # s.last_temp

\* daemon.c 326-371: the target temperature, auto-resume, and its application
TempPart(W, t) ==
    LET s      == W.st
        resume == /\ s.manual_mode
                  /\ t - s.manual_start_time >= s.manual_duration_min * 60
                  /\ s.manual_resume_time > 0
                  /\ t >= s.manual_resume_time
        temp   == IF s.manual_mode /\ ~resume
                  THEN calculate_manual_temp(s.manual_start_temp, s.manual_target_temp,
                                             s.manual_start_time, s.manual_duration_min, t)
                  ELSE solar_temperature(t, sun, s.weather)
        s1     == IF resume
                  THEN [s EXCEPT !.manual_mode = FALSE, !.manual_issued_at = 0]
                  ELSE s
        apply  == ApplyCondition(s1, temp)
        s2     == IF apply
                  THEN [s1 EXCEPT !.last_temp = temp, !.last_temp_valid = TRUE]
                  ELSE s1
        W1     == [W EXCEPT !.st = s2,
                            !.ovf = IF resume THEN config_clear_override ELSE @,
                            !.hist = IF resume
                                     THEN [@ EXCEPT !.setTemp = 0, !.setDur = 0,
                                                    !.setAt = 0, !.resumeAt = 0,
                                                    !.resumeKind = "none",
                                                    !.autoResumed = TRUE,
                                                    !.temp = temp, !.tnow = t]
                                     ELSE [@ EXCEPT !.temp = temp, !.tnow = t]]
    IN  IF apply THEN gamma_set(W1, temp) ELSE W1

\* daemon.c 181-187: one more poll per descriptor and a fresh timeout.  A poll
\* armed on a descriptor that is already readable completes at once.
Submit(W) ==
    LET p == [in  |-> IF inotifyOk THEN Min(W.polls.in + 1, PollCap) ELSE 0,
              sig |-> Min(W.polls.sig + 1, PollCap),
              w   |-> IF W.wfs.pipe_fd >= 0 THEN Min(W.polls.w + 1, PollCap)
                      ELSE W.polls.w]
        c == [in  |-> IF W.inq # << >> THEN Min(W.cq.in + 1, PollCap) ELSE W.cq.in,
              sig |-> W.cq.sig \/ sigPending,
              w   |-> W.cq.w \/ (W.wfs.pipe_fd >= 0 /\ PipeReadable(W.child, W.pipe)),
              t   |-> W.cq.t]
    IN  [W EXCEPT !.polls = p, !.cq = c]

\* the variables after an iteration that ends at the top of the loop
Commit(W) ==
    /\ st' = W.st
    /\ wfs' = W.wfs
    /\ overrideFile' = W.ovf
    /\ cacheFile' = W.cache
    /\ child' = W.child
    /\ pipe' = W.pipe
    /\ inotifyQ' = W.inq
    /\ cq' = W.cq
    /\ polls' = W.polls
    /\ hist' = W.hist
    /\ gamma' = W.gamma
    /\ pidFile' = W.pid

----------------------------------------------------------------------------
(* The daemon: daemon_run and event_loop_uring *)

\* daemon_run up to the first wait of the loop: open the gamma backend, write
\* the PID file, load the cache and apply the solar temperature, recover a
\* persisted override, create the ring and submit the first polls and timeout
\* the calls of daemon_run up to the loop, in their order, when the first
\* probe of the backend succeeds
StartupCalls ==
    << "create_signalfd_masked", "gamma_init", "config_write_pid", "gamma_set",
       "create_inotify_watch", "prctl", "landlock_install_sandbox",
       "seccomp_install_filter", "config_load_override", "uring_init",
       "event_loop_uring" >>

\* a staleness test that keeps an override whose duration ends just now
OverrideElapsed_Strict(ovr, t) == t - ovr.issued_at > ovr.duration_minutes * 60

\* daemon.c 458-459: the duration of the persisted override has elapsed
OverrideElapsed(ovr, t) == t - ovr.issued_at >= ovr.duration_minutes * 60

\* daemon.c 416-487: daemon_run from the PID file to the recovery of a
\* persisted override, with the backend opened or not
BeforeRing(opened) ==
    LET ovr     == config_load_override(overrideFile)
        weather == config_load_weather_cache(cacheFile)
        s0      == [InitState EXCEPT !.weather = weather]
        stale   == OverrideElapsed(ovr, now)
        start   == IF ovr.start_temp = 0
                   THEN solar_temperature(now, sun, weather)
                   ELSE ovr.start_temp
        s1      == [s0 EXCEPT !.manual_mode = TRUE,
                              !.manual_target_temp = ovr.target_temp,
                              !.manual_duration_min = ovr.duration_minutes,
                              !.manual_issued_at = ovr.issued_at,
                              !.manual_start_time = ovr.issued_at,
                              !.manual_start_temp = start,
                              !.manual_resume_time = next_transition_resume(now, sun)]
        recover == ovr.active /\ ~stale /\ ovr.start_temp # 0
        W0      == [World EXCEPT !.wfs = weather_async_init, !.inq = << >>,
                                 !.cq = NoCq, !.polls = NoPolls,
                                 !.hist = [NoHist EXCEPT
                                             !.calls = StartupCalls,
                                             !.recovered = recover,
                                             !.startup =
                                                 IF ~ovr.active THEN "solar"
                                                 ELSE IF stale THEN "cleared"
                                                 ELSE "manual"],
                                 !.gamma = IF opened
                                           THEN [open |-> TRUE,
                                                 temp |-> solar_temperature(
                                                              now, sun, weather)]
                                           ELSE NoGamma,
                                 !.pid = TRUE]
        W1      == IF ~ovr.active THEN [W0 EXCEPT !.st = s0]
                   ELSE IF stale
                   THEN [W0 EXCEPT !.st = s0, !.ovf = config_clear_override]
                   ELSE IF ovr.start_temp = 0
                   THEN FileWritten(
                          [W0 EXCEPT !.st = s1,
                                     !.ovf = config_save_override(
                                                 [ovr EXCEPT !.start_temp = start])],
                          "override")
                   ELSE [W0 EXCEPT !.st = s1]
    IN  W1

\* daemon.c 416-495: daemon_run from the PID file to the first wait of the
\* loop, when uring_init succeeds
StartupRest(opened) ==
    /\ Commit(Submit(BeforeRing(opened)))
    /\ timer' = [armed |-> TRUE, deadline |-> now + TEMP_UPDATE_SEC]
    /\ ev' = EvInit
    /\ pc' = "wait"
    /\ UNCHANGED << mer, now, sun, inotifyOk, sigPending, ops >>

\* daemon_run when the first probe of the backend succeeds
Startup ==
    /\ pc = "stopped"
    /\ StartupRest(TRUE)
    /\ UNCHANGED boot

\* daemon.c 384-391: daemon_run blocks SIGTERM and SIGINT and creates the
\* signalfd; the new process has no signal pending
BootBegin ==
    /\ pc = "stopped"
    /\ pc' = "probe"
    /\ boot' = NoBoot
    /\ sigPending' = FALSE
    /\ hist' = [NoHist EXCEPT !.calls = << "create_signalfd_masked" >>]
    /\ UNCHANGED << mer, gamma, pidFile, now, sun, inotifyOk, st, wfs, ev, overrideFile,
                    cacheFile, inotifyQ, polls, cq, timer, child, pipe, ops >>

\* the sleep between two attempts, in milliseconds
RetryMs == GAMMA_INIT_RETRY_NS \div 1000000

\* a retry loop that gives up one attempt late
LastAttempt_OneLate(attempt) == attempt = GAMMA_INIT_MAX_RETRIES

\* daemon.c 399: the attempt is the last one
LastAttempt(attempt) == attempt = GAMMA_INIT_MAX_RETRIES - 1

\* daemon.c 397-402: one turn of the retry loop up to the signal check;
\* gamma_init succeeds or fails as the display server is ready or not
Probe ==
    /\ pc = "probe"
    /\ IF boot.attempt < GAMMA_INIT_MAX_RETRIES
       THEN \E ok \in BOOLEAN :
              IF ok
              THEN /\ StartupRest(TRUE)
                   /\ boot' = [boot EXCEPT !.probes = @ + 1]
              ELSE /\ boot' = [boot EXCEPT !.probes = @ + 1,
                                           !.exit = IF LastAttempt(boot.attempt)
                                                    THEN "fatal" ELSE @]
                   /\ pc' = IF LastAttempt(boot.attempt) THEN "stopped"
                            ELSE "probe_check"
                   /\ hist' = [hist EXCEPT !.calls = Append(@, "gamma_init")]
                   /\ UNCHANGED << mer, gamma, pidFile, now, sun, inotifyOk, st, wfs,
                                   ev, overrideFile, cacheFile, inotifyQ, sigPending,
                                   polls, cq, timer, child, pipe, ops >>
       ELSE /\ StartupRest(FALSE)
            /\ boot' = boot

\* daemon.c 403-411: between two attempts the signalfd is polled without
\* waiting; with a signal pending the process exits with status 0
ProbeCheck ==
    /\ pc = "probe_check"
    /\ IF sigPending
       THEN /\ pc' = "stopped"
            /\ boot' = [boot EXCEPT !.exit = "signal"]
            /\ sigPending' = FALSE
       ELSE /\ pc' = "probe_sleep"
            /\ UNCHANGED << boot, sigPending >>
    /\ UNCHANGED << mer, gamma, pidFile, now, sun, inotifyOk, st, wfs, ev, overrideFile,
                    cacheFile, inotifyQ, polls, cq, timer, child, pipe, hist, ops >>

\* daemon.c 412-413 and 397: nanosleep of 500 ms, which a blocked signal does
\* not interrupt, then the next attempt
ProbeSleep ==
    /\ pc = "probe_sleep"
    /\ pc' = "probe"
    /\ boot' = [boot EXCEPT !.attempt = @ + 1, !.slept = @ + RetryMs]
    /\ UNCHANGED << mer, gamma, pidFile, now, sun, inotifyOk, st, wfs, ev, overrideFile,
                    cacheFile, inotifyQ, sigPending, polls, cq, timer, child, pipe,
                    hist, ops >>

\* daemon.c 199-220 from the completion at the head of the queue on: the
\* completions present are consumed; an inotify completion is consumed last
\* here and leads into process_inotify
PeekLoop(e) ==
    /\ ev' = [e EXCEPT !.timer_expired = @ \/ cq.t,
                       !.got_signal = @ \/ cq.sig,
                       !.weather_ready = @ \/ cq.w]
    /\ IF cq.in > 0
       THEN /\ cq' = [NoCq EXCEPT !.in = cq.in - 1]
            /\ pc' = "process_inotify"
       ELSE /\ cq' = NoCq
            /\ pc' = IF ev'.timer_expired THEN "tick" ELSE "cancel"

\* uring_submit_and_wait returns once the completion queue is not empty
Wake ==
    /\ pc = "wait"
    /\ ~CqEmpty(cq)
    /\ PeekLoop(EvInit)
    /\ hist' = [hist EXCEPT !.sigAtWake = sigPending, !.lastRead = "none",
                             !.calls = << >>, !.adopted = FALSE,
                             !.rejected = FALSE, !.reread = FALSE,
                             !.autoResumed = FALSE,
                             !.temp = 0, !.tnow = 0, !.recovered = FALSE,
                             !.startup = "none"]
    /\ UNCHANGED << boot, mer, gamma, pidFile, now, sun, inotifyOk, st, wfs, overrideFile, cacheFile, inotifyQ,
                    sigPending, polls, timer, child, pipe, ops >>

\* process_inotify: read() on the inotify descriptor returns when an event is
\* queued (the descriptor is blocking) and takes every queued event; the loop
\* over the completions goes on
process_inotify ==
    /\ pc = "process_inotify"
    /\ inotifyQ # << >>
    /\ PeekLoop([ev EXCEPT !.override_changed = @ \/ InQueue(inotifyQ, "override"),
                           !.config_changed = @ \/ InQueue(inotifyQ, "config")])
    /\ inotifyQ' = << >>
    /\ UNCHANGED << boot, mer, gamma, pidFile, now, sun, inotifyOk, st, wfs, overrideFile, cacheFile, sigPending,
                    polls, timer, child, pipe, hist, ops >>

\* daemon.c 223-229: the timeout is cancelled and every completion present is
\* discarded
CancelTimeout ==
    /\ pc = "cancel"
    /\ timer' = NoTimer
    /\ cq' = NoCq
    /\ pc' = "tick"
    /\ UNCHANGED << boot, mer, gamma, pidFile, now, sun, inotifyOk, st, wfs, ev, overrideFile, cacheFile, inotifyQ,
                    sigPending, polls, child, pipe, hist, ops >>

\* a signal handled only after the override change of the same wake
SignalBreak_AfterOverride(W, e) ==
    Call(OverrideChanged(
             [W EXCEPT !.hist = [NoHist EXCEPT !.fetching = W.wfs.phase # WEATHER_IDLE,
                                               !.atSignal = e]],
             e, now),
         "read_signalfd")

\* daemon.c 231-238: with got_signal set nothing of the tick is done; the
\* signalfd is read
SignalBreak(W, e) ==
    Call([W EXCEPT !.hist = [NoHist EXCEPT !.fetching = W.wfs.phase # WEATHER_IDLE,
                                           !.atSignal = e]],
         "read_signalfd")

\* daemon.c 231-241 and 496-506: the signal is read, a pending fetch is killed
\* and reaped, the loop returns and daemon_run cleans up
Shutdown ==
    /\ pc = "tick"
    /\ ev.got_signal
    /\ sigPending' = FALSE
    /\ LET W == CleanShutdown(wfs_reset(SignalBreak(World, ev)))
       IN  /\ wfs' = W.wfs
           /\ child' = W.child
           /\ pipe' = W.pipe
           /\ hist' = W.hist
           /\ gamma' = W.gamma
           /\ pidFile' = W.pid
           /\ overrideFile' = W.ovf
           /\ cacheFile' = W.cache
    /\ pc' = "stopped"
    /\ st' = InitState
    /\ ev' = EvInit
    /\ inotifyQ' = << >>
    /\ polls' = NoPolls
    /\ cq' = NoCq
    /\ timer' = NoTimer
    /\ UNCHANGED << boot, mer, now, sun, inotifyOk, ops >>

\* daemon.c 189-190 and 496-506: io_uring_enter fails with an error other than
\* EINTR; the loop is left at once, with the fetch state as it is, and
\* daemon_run cleans up.  The process ends: its descriptors are closed, a
\* child it had is left to itself.
WaitFails ==
    /\ pc = "wait"
    /\ ops < MaxOps
    /\ ops' = ops + 1
    /\ LET W == CleanShutdown([World EXCEPT !.hist = [NoHist EXCEPT !.fetching =
                                                       wfs.phase # WEATHER_IDLE]])
       IN  /\ hist' = W.hist
           /\ gamma' = W.gamma
           /\ pidFile' = W.pid
    /\ wfs' = weather_async_init
    /\ pipe' = NoPipe
    /\ sigPending' = FALSE
    /\ pc' = "stopped"
    /\ st' = InitState
    /\ ev' = EvInit
    /\ inotifyQ' = << >>
    /\ polls' = NoPolls
    /\ cq' = NoCq
    /\ timer' = NoTimer
    /\ UNCHANGED << boot, mer, now, sun, inotifyOk, overrideFile, cacheFile, child >>

\* daemon.c 416-493 when uring_init fails: daemon_run has written the PID
\* file, applied the startup temperature and recovered a persisted override,
\* and calls exit(1).  The process ends there: its descriptors are closed,
\* the ramps it wrote and the PID file stay as they are.
UringInitFails ==
    /\ pc = "stopped"
    /\ ops < MaxOps
    /\ ops' = ops + 1
    /\ LET W == BeforeRing(TRUE)
       IN  /\ hist' = [W.hist EXCEPT !.calls =
                          SubSeq(StartupCalls, 1, Len(StartupCalls) - 1)
                              \o << "exit" >>]
           /\ gamma' = [W.gamma EXCEPT !.open = FALSE]
           /\ pidFile' = W.pid
           /\ overrideFile' = W.ovf
           /\ cacheFile' = W.cache
    /\ wfs' = weather_async_init
    /\ st' = InitState
    /\ ev' = EvInit
    /\ inotifyQ' = << >>
    /\ polls' = NoPolls
    /\ cq' = NoCq
    /\ timer' = NoTimer
    /\ pc' = "stopped"
    /\ UNCHANGED << boot, mer, now, sun, inotifyOk, sigPending, child, pipe >>

\* daemon.c 245-323 up to the pipe's end of file, then 326-373 and 181-189
\* when weather_async_read does not have to wait for the child
Tick ==
    /\ pc = "tick"
    /\ ~ev.got_signal
    /\ \E spawn_ok \in BOOLEAN, read_error \in BOOLEAN :
         LET W1 == OverrideChanged(ReloadConfig(World, ev), ev, now)
             W2 == StartFetchIfNeeded(W1, now, spawn_ok)
             reading == ev.weather_ready /\ W2.wfs.phase # WEATHER_IDLE
             W3 == Drained(W2)
         IN  IF ~reading
             THEN /\ Commit(Submit(TempPart(W2, now)))
                  /\ pc' = "wait"
                  /\ ev' = EvInit
                  /\ timer' = [armed |-> TRUE, deadline |-> now + TEMP_UPDATE_SEC]
             ELSE IF read_error
             THEN /\ Commit(Submit(TempPart(
                        Deliver(wfs_reset(W3), wfs_error_result(now), "error"), now)))
                  /\ pc' = "wait"
                  /\ ev' = EvInit
                  /\ timer' = [armed |-> TRUE, deadline |-> now + TEMP_UPDATE_SEC]
             ELSE IF ~AtEof(W3)
             THEN /\ Commit(Submit(TempPart(
                        [W3 EXCEPT !.hist = [@ EXCEPT !.lastRead = "eagain"]], now)))
                  /\ pc' = "wait"
                  /\ ev' = EvInit
                  /\ timer' = [armed |-> TRUE, deadline |-> now + TEMP_UPDATE_SEC]
             ELSE /\ Commit([W3 EXCEPT !.wfs = [@ EXCEPT !.pipe_fd = -1],
                                       !.pipe = NoPipe,
                                       !.polls = [@ EXCEPT !.w = 0]])
                  /\ pc' = "waitpid"
                  /\ ev' = [ev EXCEPT !.now = now]
                  /\ timer' = timer
    /\ UNCHANGED << boot, mer, now, sun, inotifyOk, sigPending, ops >>

\* weather.c 387-487 once waitpid returns, then daemon.c 311-373 and 181-189
Reap ==
    /\ pc = "waitpid"
    /\ child.state = "zombie"
    /\ \E spawn_ok \in BOOLEAN :
         LET W0 == [World EXCEPT !.child = NoChild,
                                 !.wfs = [@ EXCEPT !.child_pid = 0]]
             W1 == AfterReap(W0, child.exit_ok, spawn_ok)
         IN  Commit(Submit(TempPart(W1, ev.now)))
    /\ pc' = "wait"
    /\ ev' = EvInit
    /\ timer' = [armed |-> TRUE, deadline |-> now + TEMP_UPDATE_SEC]
    /\ UNCHANGED << boot, mer, now, sun, inotifyOk, sigPending, ops >>

----------------------------------------------------------------------------
(* The environment: the clock, the CLI, signals and the curl child *)

\* the daemon is inside a system call that has not returned
Blocked ==
    \/ pc = "wait" /\ CqEmpty(cq)
    \/ pc = "process_inotify" /\ inotifyQ = << >>
    \/ pc = "waitpid" /\ child.state # "zombie"

ChildAlive == child.state \in {"running", "closed"}

\* The environment acts while the daemon is inside a system call or not
\* running, and in the windows before and after the drain of the completion
\* queue; what arrives while the completions are consumed is consumed too.
EnvPoint ==
    \/ Blocked
    \/ pc \in {"stopped", "wait", "cancel", "tick", "waitpid"}
    \/ pc \in {"probe", "probe_check", "probe_sleep"}

\* The clock moves while the daemon is blocked or not running.  The timeout
\* completes at its deadline; curl --max-time 5 ends the child in time.
Advance ==
    /\ Blocked \/ pc = "stopped"
    /\ \E d \in {TimeStep, timer.deadline - now,
                 child.spawned + CURL_MAX_TIME - now} :
         /\ d = TimeStep => ~timer.armed /\ ~ChildAlive
         /\ d > 0
         /\ now + d <= StartTime + MaxTime
         /\ timer.armed => now + d <= timer.deadline
         /\ ChildAlive => now + d <= child.spawned + CURL_MAX_TIME
         /\ now' = now + d
         /\ IF timer.armed /\ now + d = timer.deadline
            THEN /\ timer' = NoTimer
                 /\ cq' = [cq EXCEPT !.t = TRUE]
            ELSE /\ timer' = timer
                 /\ cq' = cq
    /\ UNCHANGED << boot, mer, gamma, pidFile, sun, inotifyOk, pc, st, wfs, ev, overrideFile, cacheFile, inotifyQ,
                    sigPending, polls, child, pipe, hist, ops >>

\* a close_write in the watched directory, seen from outside the daemon
Notify(name) ==
    IF Watching /\ ~Merged(inotifyQ, name)
    THEN /\ inotifyQ' = Append(inotifyQ, name)
         /\ cq' = PostIn(cq, polls)
    ELSE /\ inotifyQ' = inotifyQ
         /\ cq' = cq

\* cmd_set_temp
CliSet ==
    /\ EnvPoint
    /\ ops < MaxOps
    /\ ops' = ops + 1
    /\ \E temp \in SetTemps, dur \in SetDurations :
      /\ overrideFile' = config_save_override(
                           [active |-> TRUE, target_temp |-> temp,
                            duration_minutes |-> dur, issued_at |-> now,
                            start_temp |-> 0])
      /\ Notify("override")
      /\ hist' = IF Running
                 THEN [hist EXCEPT !.setTemp = temp, !.setDur = dur, !.setAt = now,
                                   !.resumeAt = 0, !.resumeKind = "none"]
                 ELSE hist
      /\ UNCHANGED << boot, mer, gamma, pidFile, now, sun, inotifyOk, pc, st, wfs, ev, cacheFile, sigPending, polls,
                      timer, child, pipe >>

\* override.json written from outside the CLI: config_load_override takes
\* target_temp and start_temp as they are
EditOverride ==
    /\ EnvPoint
    /\ ops < MaxOps
    /\ ops' = ops + 1
    /\ \E temp \in EditTemps, from \in EditTemps \cup {0}, dur \in SetDurations :
      /\ overrideFile' = [exists |-> TRUE, size |-> SavedBytes,
                          wellformed |-> TRUE,
                          active |-> TRUE, target_temp |-> temp,
                          duration_minutes |-> dur, issued_at |-> now,
                          start_temp |-> from]
      /\ Notify("override")
      /\ UNCHANGED << boot, mer, gamma, pidFile, now, sun, inotifyOk, pc, st, wfs, ev, cacheFile,
                      sigPending, polls, timer, child, pipe, hist >>

\* sizes of an override.json that another program leaves behind: empty, at
\* the limit, one byte beyond it
OverrideSizes == {0, MAX_OVERRIDE_FILE_SIZE, MAX_OVERRIDE_FILE_SIZE + 1}

\* and of a weather_cache.json
CacheSizes == {0, MAX_WEATHER_FILE_SIZE, MAX_WEATHER_FILE_SIZE + 1}

\* override.json written by another program, or cut short: its text names an
\* active override, but the file may be empty, too large or not JSON
DamageOverride ==
    /\ EnvPoint
    /\ ops < MaxOps
    /\ ops' = ops + 1
    /\ \E sz \in OverrideSizes, wf \in BOOLEAN :
      /\ overrideFile' = [exists |-> TRUE, size |-> sz, wellformed |-> wf,
                          active |-> TRUE, target_temp |-> TEMP_MIN,
                          duration_minutes |-> 0, issued_at |-> now,
                          start_temp |-> TEMP_MIN]
      /\ Notify("override")
      /\ UNCHANGED << boot, mer, gamma, pidFile, now, sun, inotifyOk, pc, st, wfs, ev, cacheFile,
                      sigPending, polls, timer, child, pipe, hist >>

\* what a resume request leaves in the history
Resumed(kind) ==
    [hist EXCEPT !.setTemp = 0, !.setDur = 0, !.setAt = 0,
                 !.resumeAt = IF Running /\ st.manual_mode THEN now ELSE 0,
                 !.resumeKind = IF Running /\ st.manual_mode THEN kind ELSE "none"]

\* cmd_resume: an override file with active = false
CliResume ==
    /\ EnvPoint
    /\ ops < MaxOps
    /\ ops' = ops + 1
    /\ overrideFile' = config_save_override(
                         [active |-> FALSE, target_temp |-> 0,
                          duration_minutes |-> 0, issued_at |-> 0,
                          start_temp |-> 0])
    /\ Notify("override")
    /\ hist' = Resumed("write")
    /\ UNCHANGED << boot, mer, gamma, pidFile, now, sun, inotifyOk, pc, st, wfs, ev, cacheFile, sigPending, polls,
                    timer, child, pipe >>

\* cmd_reset: the override file is unlinked, which is no close_write
CliReset ==
    /\ EnvPoint
    /\ ops < MaxOps
    /\ ops' = ops + 1
    /\ overrideFile.exists
    /\ overrideFile' = config_clear_override
    /\ hist' = Resumed("delete")
    /\ UNCHANGED << boot, mer, gamma, pidFile, now, sun, inotifyOk, pc, st, wfs, ev, cacheFile, inotifyQ, sigPending,
                    polls, cq, timer, child, pipe >>

\* cmd_set_location: config.ini is rewritten
CliSetLocation ==
    /\ EnvPoint
    /\ ops < MaxOps
    /\ ops' = ops + 1
    /\ Watching
    /\ Notify("config")
    /\ UNCHANGED << boot, mer, gamma, pidFile, now, sun, inotifyOk, pc, st, wfs, ev, overrideFile, cacheFile,
                    sigPending, polls, timer, child, pipe, hist >>

\* cmd_refresh: the CLI fetches the weather itself; a failed fetch leaves the
\* cache alone, a good one rewrites weather_cache.json
CliRefresh ==
    /\ EnvPoint
    /\ ops < MaxOps
    /\ ops' = ops + 1
    /\ \E ok \in BOOLEAN, c \in CloudChoices :
         IF ok
         THEN /\ cacheFile' = config_save_weather_cache(
                                  [cloud_cover |-> c, fetched_at |-> now,
                                   has_error |-> FALSE])
              /\ Notify("cache")
              /\ hist' = IF Running
                         THEN [hist EXCEPT !.refreshAt = now, !.refreshCloud = c]
                         ELSE hist
         ELSE UNCHANGED << cacheFile, inotifyQ, cq, hist >>
    /\ UNCHANGED << boot, mer, gamma, pidFile, now, sun, inotifyOk, pc, st, wfs, ev, overrideFile,
                    sigPending, polls, timer, child, pipe >>

\* SIGTERM or SIGINT: blocked, so it stays pending on the signalfd
Signal ==
    /\ EnvPoint
    /\ ops < MaxOps
    /\ ops' = ops + 1
    /\ Running
    /\ ~sigPending
    /\ sigPending' = TRUE
    /\ cq' = PostSig(cq, polls)
    /\ UNCHANGED << boot, mer, gamma, pidFile, now, sun, inotifyOk, pc, st, wfs, ev, overrideFile, cacheFile,
                    inotifyQ, polls, timer, child, pipe, hist >>

\* curl writes the response body to its stdout
ChildWrite ==
    /\ EnvPoint
    /\ child.state = "running"
    /\ ~pipe.written
    /\ \E b \in Bodies :
         pipe' = [data |-> TRUE, body |-> b, written |-> TRUE]
    /\ cq' = PostW(cq, polls)
    /\ UNCHANGED << boot, mer, gamma, pidFile, now, sun, inotifyOk, pc, st, wfs, ev, overrideFile, cacheFile,
                    inotifyQ, sigPending, polls, timer, child, hist, ops >>

\* curl closes its stdout: end of file on the pipe
ChildClose ==
    /\ EnvPoint
    /\ child.state = "running"
    /\ child' = [child EXCEPT !.state = "closed"]
    /\ cq' = PostW(cq, polls)
    /\ UNCHANGED << boot, mer, gamma, pidFile, now, sun, inotifyOk, pc, st, wfs, ev, overrideFile, cacheFile,
                    inotifyQ, sigPending, polls, timer, pipe, hist, ops >>

\* curl exits, with status 0 or not
ChildExit ==
    /\ EnvPoint
    /\ ChildAlive
    /\ \E ok \in BOOLEAN :
         child' = [child EXCEPT !.state = "zombie", !.exit_ok = ok]
    /\ cq' = IF child.state = "running" THEN PostW(cq, polls) ELSE cq
    /\ UNCHANGED << boot, mer, gamma, pidFile, now, sun, inotifyOk, pc, st, wfs, ev, overrideFile, cacheFile,
                    inotifyQ, sigPending, polls, timer, pipe, hist, ops >>

----------------------------------------------------------------------------
(* libmeridian: the dispatcher and the backends *)

\* a call without a CRTC, and a call on CRTC i
Op(name) == [op |-> name, crtc |-> 0]
OpAt(name, i) == [op |-> name, crtc |-> i]

\* what one display interface offers: it cannot be opened (or has no CRTC),
\* or it reports up to MaxCrtcs CRTCs with gamma ramps of the given sizes
NoDisplay == [ok |-> FALSE, sizes |-> << >>]

Displays(sizes) ==
    {NoDisplay} \cup
    {[ok |-> TRUE, sizes |-> q] : q \in UNION {[1..n -> sizes] : n \in 1..MaxCrtcs}}

\* the machines meridian_init_card may run on: $WAYLAND_DISPLAY set or not, a
\* wlr compositor with usable outputs, Mutter, a DRM card whose CRTCs report
\* no ramp, a ramp of one entry or a real one, an X server
Environments ==
    [wayland_display : BOOLEAN,
     wl    : Displays({GNOME_GAMMA_SIZE}),
     gnome : Displays({GNOME_GAMMA_SIZE}),
     drm   : Displays({0, 1, GNOME_GAMMA_SIZE}),
     x11   : Displays({0, GNOME_GAMMA_SIZE})]

\* meridian_drm_init: a ramp of at most one entry counts as none; the ramps
\* of the other CRTCs are saved
meridian_drm_init(d) ==
    [i \in DOMAIN d.sizes |->
        [size  |-> IF d.sizes[i] <= 1 THEN 0 ELSE d.sizes[i],
         saved |-> d.sizes[i] > 1,
         saved_ramp |-> IF d.sizes[i] > 1 THEN "original" ELSE "none",
         display |-> "original"]]

\* meridian_x11_init: the ramp of every CRTC of gamma size > 0 is read and
\* saved
meridian_x11_init(d) ==
    [i \in DOMAIN d.sizes |->
        [size |-> d.sizes[i], saved |-> d.sizes[i] > 0,
         saved_ramp |-> IF d.sizes[i] > 0 THEN "original" ELSE "none",
         display |-> "original"]]

\* meridian_wl_init and meridian_gnome_init: nothing is saved, the compositor
\* keeps the original ramps
meridian_wl_init(d) ==
    [i \in DOMAIN d.sizes |->
        [size |-> d.sizes[i], saved |-> FALSE, saved_ramp |-> "none",
         display |-> "original"]]

meridian_gnome_init(d) ==
    [i \in DOMAIN d.sizes |->
        [size |-> GNOME_GAMMA_SIZE, saved |-> FALSE, saved_ramp |-> "none",
         display |-> "original"]]

\* the CRTC can take a ramp
Usable(backend, c) ==
    CASE backend = "drm"     -> c.size > 1
      [] backend = "x11"     -> c.size > 0
      [] backend = "wayland" -> c.size > 0
      [] OTHER               -> TRUE

\* a DRM probe that succeeds with any CRTC
DrmUsable_AnyCrtc(crtcs) == DOMAIN crtcs # {}

\* gamma_auto.c 169-176: some CRTC of the DRM card has gamma_size > 1
DrmUsable(crtcs) == \E i \in DOMAIN crtcs : crtcs[i].size > 1

\* the result of meridian_init_card: return code, backend and CRTCs of the
\* handle, probes made
InitResult(ret, backend, crtcs, calls) ==
    [ret |-> ret, backend |-> backend, crtcs |-> crtcs, calls |-> calls]

meridian_init_card(e) ==
    LET wayland == IF e.wayland_display
                   THEN << Op("meridian_wl_init"), Op("meridian_gnome_init") >>
                   ELSE << >>
        drm     == meridian_drm_init(e.drm)
        afterDrm == wayland \o
                    (IF e.drm.ok
                     THEN << Op("meridian_drm_init"), Op("meridian_drm_free") >>
                     ELSE << Op("meridian_drm_init") >>)
    IN  IF e.wayland_display /\ e.wl.ok
        THEN InitResult("MERIDIAN_OK", "wayland", meridian_wl_init(e.wl),
                        << Op("meridian_wl_init") >>)
        ELSE IF e.wayland_display /\ e.gnome.ok
        THEN InitResult("MERIDIAN_OK", "gnome", meridian_gnome_init(e.gnome),
                        wayland)
        ELSE IF e.drm.ok /\ DrmUsable(drm)
        THEN InitResult("MERIDIAN_OK", "drm", drm,
                        Append(wayland, Op("meridian_drm_init")))
        ELSE IF e.x11.ok
        THEN InitResult("MERIDIAN_OK", "x11", meridian_x11_init(e.x11),
                        Append(afterDrm, Op("meridian_x11_init")))
        ELSE InitResult("MERIDIAN_ERR_NO_CRTC", "none", << >>,
                        Append(afterDrm, Op("meridian_x11_init")))

\* the error of a backend whose write of one CRTC fails
WriteError(backend) ==
    CASE backend = "drm"     -> "MERIDIAN_ERR_GAMMA"
      [] backend = "x11"     -> "MERIDIAN_ERR_RESOURCES"
      [] backend = "wayland" -> "MERIDIAN_ERR_DRM_RESOURCES"
      [] OTHER               -> "MERIDIAN_ERR_GNOME_DBUS"

\* a set_temperature_crtc that fills the saved ramps of the CRTC and sends
\* them
set_temperature_crtc_IntoSaved(c) ==
    [c EXCEPT !.display = "temperature", !.saved_ramp = "temperature"]

\* meridian_<backend>_set_temperature_crtc when the write succeeds: ramps
\* freshly allocated and filled for the temperature are sent to the CRTC
set_temperature_crtc(c) == [c EXCEPT !.display = "temperature"]

\* the loop of meridian_<backend>_set_temperature from CRTC i on: every usable
\* CRTC is attempted; ok[i] tells whether the write of CRTC i succeeds
RECURSIVE set_temperature_from(_, _, _, _, _)
set_temperature_from(backend, crtcs, ok, i, acc) ==
    IF i > Len(crtcs)
    THEN [ret |-> IF acc.success_count > 0 THEN "MERIDIAN_OK" ELSE acc.last_err,
          attempted |-> acc.attempted, written |-> acc.written,
          crtcs |-> [k \in DOMAIN crtcs |->
                       IF k \in acc.written THEN set_temperature_crtc(crtcs[k])
                       ELSE crtcs[k]]]
    ELSE IF ~Usable(backend, crtcs[i])
    THEN set_temperature_from(backend, crtcs, ok, i + 1, acc)
    ELSE IF ok[i]
    THEN set_temperature_from(backend, crtcs, ok, i + 1,
             [acc EXCEPT !.success_count = @ + 1,
                         !.attempted = @ \cup {i}, !.written = @ \cup {i}])
    ELSE set_temperature_from(backend, crtcs, ok, i + 1,
             [acc EXCEPT !.last_err = WriteError(backend),
                         !.attempted = @ \cup {i}])

\* meridian_set_temperature: the set_temperature of the active backend
meridian_set_temperature(backend, crtcs, ok) ==
    IF backend = "none"
    THEN [ret |-> "MERIDIAN_ERR_NO_CRTC", attempted |-> {}, written |-> {},
          crtcs |-> crtcs]
    ELSE set_temperature_from(backend, crtcs, ok, 1,
             [success_count |-> 0, last_err |-> "MERIDIAN_OK",
              attempted |-> {}, written |-> {}])

\* the calls of a loop over the CRTCs in their order, q[i] being the calls
\* made for CRTC i
RECURSIVE InOrder(_)
InOrder(q) == IF q = << >> THEN << >> ELSE Head(q) \o InOrder(Tail(q))

\* meridian_drm_restore and meridian_x11_restore: every saved ramp is written
meridian_restore_saved(crtcs) ==
    LET write(i) == IF crtcs[i].saved THEN << OpAt("write_saved", i) >> ELSE << >>
    IN  InOrder([i \in 1..Len(crtcs) |-> write(i)])

\* the saved ramps are freed
free_saved(crtcs) ==
    LET free(i) == IF crtcs[i].saved THEN << OpAt("free_saved", i) >> ELSE << >>
    IN  InOrder([i \in 1..Len(crtcs) |-> free(i)])

\* a free that releases the saved ramps and the device before it restores
meridian_drm_free_ReleaseFirst(crtcs) ==
    free_saved(crtcs) \o << Op("close_device") >> \o meridian_restore_saved(crtcs)

\* meridian_drm_free: restore, free the saved ramps, close the device
meridian_drm_free(crtcs) ==
    meridian_restore_saved(crtcs) \o free_saved(crtcs) \o << Op("close_device") >>

\* meridian_x11_free: restore, free the saved ramps, close the display
meridian_x11_free(crtcs) ==
    meridian_restore_saved(crtcs) \o free_saved(crtcs) \o << Op("close_display") >>

\* meridian_gnome_free: linear ramps are sent to every CRTC, the bus is left
meridian_gnome_free(crtcs) ==
    LET linear(i) == << OpAt("write_linear", i) >>
    IN  InOrder([i \in 1..Len(crtcs) |-> linear(i)]) \o << Op("close_display") >>

\* meridian_wl_free: the gamma controls are destroyed, which makes the
\* compositor restore, and the display is disconnected
meridian_wl_free(crtcs) ==
    LET destroy(i) == << OpAt("destroy_gamma_control", i) >>
    IN  InOrder([i \in 1..Len(crtcs) |-> destroy(i)]) \o << Op("close_display") >>

\* meridian_free: the free of the active backend, then the handle
meridian_free(backend, crtcs) ==
    (CASE backend = "drm"     -> meridian_drm_free(crtcs)
       [] backend = "x11"     -> meridian_x11_free(crtcs)
       [] backend = "wayland" -> meridian_wl_free(crtcs)
       [] backend = "gnome"   -> meridian_gnome_free(crtcs)
       [] OTHER               -> << >>)
    \o << Op("free_handle") >>

\* the variables of the daemon, which libmeridian does not touch
DaemonIdle ==
    UNCHANGED << now, sun, inotifyOk, pc, st, wfs, ev, overrideFile, cacheFile,
                 inotifyQ, sigPending, polls, cq, timer, child, pipe, hist, ops,
                 gamma, pidFile, boot >>

\* meridian_init_card on the machine
MeridianInit ==
    /\ mer.backend = "none"
    /\ LET r == meridian_init_card(mer.env)
       IN  mer' = [NoMeridian EXCEPT !.backend = r.backend, !.last = "init",
                                     !.ret = r.ret, !.crtcs = r.crtcs,
                                     !.calls = r.calls, !.env = mer.env]
    /\ DaemonIdle

\* meridian_set_temperature on the handle; each write succeeds or fails
MeridianSetTemperature ==
    /\ mer.backend # "none"
    /\ \E ok \in [DOMAIN mer.crtcs -> BOOLEAN] :
         LET r == meridian_set_temperature(mer.backend, mer.crtcs, ok)
         IN  mer' = [mer EXCEPT !.last = "set_temperature", !.ret = r.ret,
                                !.attempted = r.attempted, !.written = r.written,
                                !.crtcs = r.crtcs, !.calls = << >>]
    /\ DaemonIdle

\* meridian_restore: DRM and X11 send the saved ramp of every CRTC that has
\* one, GNOME sends a linear ramp to every CRTC, and the Wayland backend
\* destroys its gamma controls, on which the compositor restores
meridian_restore(backend, crtcs) ==
    [i \in DOMAIN crtcs |->
        CASE backend \in {"drm", "x11"} ->
                 IF crtcs[i].saved
                 THEN [crtcs[i] EXCEPT !.display = crtcs[i].saved_ramp]
                 ELSE crtcs[i]
          [] backend = "gnome" -> [crtcs[i] EXCEPT !.display = "linear"]
          [] OTHER             -> [crtcs[i] EXCEPT !.display = "original"]]

\* meridian_restore on the handle
MeridianRestore ==
    /\ mer.backend # "none"
    /\ mer' = [mer EXCEPT !.last = "restore", !.ret = "MERIDIAN_OK",
                          !.crtcs = meridian_restore(mer.backend, mer.crtcs),
                          !.calls = << >>, !.attempted = {}, !.written = {}]
    /\ DaemonIdle

\* meridian_free on the handle
MeridianFree ==
    /\ mer.backend # "none"
    /\ mer' = [mer EXCEPT !.backend = "none", !.last = "free",
                          !.ret = "MERIDIAN_OK",
                          !.crtcs = meridian_restore(mer.backend, mer.crtcs),
                          !.calls = meridian_free(mer.backend, mer.crtcs),
                          !.attempted = {}, !.written = {}]
    /\ DaemonIdle

----------------------------------------------------------------------------
(* The specifications *)

\* the state before daemon_run at one of the given times, with the weather
\* cache file as given
InitAt(times, cache, suns, watch, machines) ==
    /\ now \in times
    /\ sun \in suns
    /\ inotifyOk \in watch
    /\ pc = "stopped"
    /\ st = InitState
    /\ wfs = weather_async_init
    /\ ev = EvInit
    /\ overrideFile = NoOverride
    /\ cacheFile = cache
    /\ inotifyQ = << >>
    /\ sigPending = FALSE
    /\ polls = NoPolls
    /\ cq = NoCq
    /\ timer = NoTimer
    /\ child = NoChild
    /\ pipe = NoPipe
    /\ hist = NoHist
    /\ ops = 0
    /\ gamma = NoGamma
    /\ pidFile = FALSE
    /\ boot = NoBoot
    /\ \E e \in machines : mer = [NoMeridian EXCEPT !.env = e]

\* the state before daemon_run at StartTime
InitOn(cache, suns, watch, machines) ==
    InitAt({StartTime}, cache, suns, watch, machines)

\* the daemon apart from libmeridian
InitWith(cache, suns, watch) == InitOn(cache, suns, watch, {NoMeridian.env})

\* daemon_run and the steps of event_loop_uring that need no child
Daemon ==
    \/ Startup
    \/ Wake
    \/ process_inotify
    \/ CancelTimeout
    \/ Shutdown
    \/ Tick

\* Weather: the daemon starts without a cache, so that it fetches, with or
\* without an inotify watch; the environment is the clock, the curl children,
\* signals and config rewrites.
\* The ephemeris only shapes the temperatures: one day is followed.
InitWeather == InitWith(NoCache, {DuskSoon}, BOOLEAN)

NextWeather ==
    \/ Daemon
    \/ Reap
    \/ Advance
    \/ ChildWrite
    \/ ChildClose
    \/ ChildExit
    \/ Signal
    \/ CliSetLocation

SpecWeather == InitWeather /\ [][NextWeather]_vars

\* Failure of the ring: the daemon starts without a cache and with an
\* inotify watch; the environment is the clock, the curl children, signals,
\* io_uring_enter failing in the wait and io_uring_setup failing at startup.
InitFailure == InitWith(NoCache, {DuskSoon}, {TRUE})

NextFailure ==
    \/ Daemon
    \/ Reap
    \/ WaitFails
    \/ UringInitFails
    \/ Advance
    \/ ChildWrite
    \/ ChildClose
    \/ ChildExit
    \/ Signal

SpecFailure == InitFailure /\ [][NextFailure]_vars

\* Overrides: the daemon starts with an inotify watch and with a cache that
\* stays fresh, so that no fetch is due; the environment is the clock, the CLI
\* and signals.
InitOverride ==
    \E c \in CloudChoices :
        InitWith(config_save_weather_cache(
                     [cloud_cover |-> c, fetched_at |-> StartTime,
                      has_error |-> FALSE]),
                 SunChoices, {TRUE})

NextOverride ==
    \/ Daemon
    \/ Advance
    \/ CliSet
    \/ CliResume
    \/ CliReset
    \/ Signal

SpecOverride == InitOverride /\ [][NextOverride]_vars

\* Edited overrides: as for overrides, but override.json is written from
\* outside the CLI, with temperatures the CLI would refuse.
InitEdit == InitOverride

NextEdit ==
    \/ Daemon
    \/ Advance
    \/ EditOverride
    \/ Signal

SpecEdit == InitEdit /\ [][NextEdit]_vars

\* Refresh: the daemon starts with an inotify watch and a fresh cache; the
\* environment is the clock, the CLI's refresh and signals.
InitRefresh == InitOverride

NextRefresh ==
    \/ Daemon
    \/ Advance
    \/ CliRefresh
    \/ Signal

SpecRefresh == InitRefresh /\ [][NextRefresh]_vars

\* Foreign cache: the daemon starts with an inotify watch and with a
\* weather_cache.json that was not written by config_save_weather_cache: it
\* carries an error key and a cloud cover.  The environment is the clock, the
\* curl children and signals.
InitCache ==
    \E c \in CloudChoices :
        InitWith([exists |-> TRUE, size |-> SavedBytes, wellformed |-> TRUE,
                  error |-> TRUE, cloud_cover |-> c, fetched_at |-> StartTime],
                 {DuskSoon}, {TRUE})

NextCache ==
    \/ Daemon
    \/ Reap
    \/ Advance
    \/ ChildWrite
    \/ ChildClose
    \/ ChildExit
    \/ Signal

SpecCache == InitCache /\ [][NextCache]_vars

\* Boot: daemon_run with the retry loop of the backend probe, the display
\* server being ready at any attempt or never; a fresh cache, no CLI.  The
\* environment is the clock and signals.
InitBoot ==
    InitWith(config_save_weather_cache(
                 [cloud_cover |-> 0, fetched_at |-> StartTime, has_error |-> FALSE]),
             {DuskSoon}, {TRUE})

NextBoot ==
    \/ BootBegin
    \/ Probe
    \/ ProbeCheck
    \/ ProbeSleep
    \/ Wake
    \/ CancelTimeout
    \/ Shutdown
    \/ Tick
    \/ Advance
    \/ Signal

SpecBoot == InitBoot /\ [][NextBoot]_vars

\* libmeridian alone: on some machine a handle is initialised, used and
\* freed; the daemon is not running.
InitMeridian == InitOn(NoCache, {DuskSoon}, {TRUE}, Environments)

NextMeridian ==
    \/ MeridianInit
    \/ MeridianSetTemperature
    \/ MeridianRestore
    \/ MeridianFree

SpecMeridian == InitMeridian /\ [][NextMeridian]_vars

\* Damaged files: the daemon starts with an inotify watch and with a
\* weather_cache.json that holds a fresh observation but may be empty, too
\* large or not JSON; another program leaves such override.json files.  The
\* environment is the clock, that program and signals.
InitDamage ==
    \E c \in CloudChoices, sz \in CacheSizes, wf \in BOOLEAN :
        InitWith([exists |-> TRUE, size |-> sz, wellformed |-> wf,
                  error |-> FALSE, cloud_cover |-> c, fetched_at |-> StartTime],
                 {DuskSoon}, {TRUE})

NextDamage ==
    \/ Daemon
    \/ Advance
    \/ DamageOverride
    \/ Signal

SpecDamage == InitDamage /\ [][NextDamage]_vars

\* next_transition_resume alone: at some instant of some day, at some
\* location, the resume time is computed as the daemon computes it when it
\* adopts an override.
ResumeQuery ==
    /\ pc = "stopped"
    /\ hist.calls = << >>
    /\ st' = [st EXCEPT !.manual_resume_time = next_transition_resume(now, sun)]
    /\ hist' = [hist EXCEPT !.calls = << "next_transition_resume" >>]
    /\ UNCHANGED << now, sun, inotifyOk, pc, wfs, ev, overrideFile, cacheFile,
                    inotifyQ, sigPending, polls, cq, timer, child, pipe, ops,
                    gamma, pidFile, boot, mer >>

InitResume ==
    InitAt({d * SECONDS_PER_DAY + t : d \in ResumeDays, t \in ResumeTimes},
           NoCache, Ephemerides, {TRUE}, {NoMeridian.env})

NextResume == ResumeQuery

SpecResume == InitResume /\ [][NextResume]_vars

----------------------------------------------------------------------------
(* Properties *)

\* in the record of calls, a call of a comes before a call of b
Precedes(a, b) ==
    \E i, j \in DOMAIN hist.calls :
        hist.calls[i] = a /\ hist.calls[j] = b /\ i < j

\* C1: after a fetch has finished at time t, with a result or with an error,
\* no new fetch is started (no points child is spawned) before
\* t + WEATHER_REFRESH_SEC.
C1_NoFetchWithinRefreshWindow ==
    [][(/\ wfs.phase = WEATHER_IDLE
        /\ wfs'.phase = WEATHER_READING_POINTS
        /\ hist.lastDone # 0)
       => now >= hist.lastDone + WEATHER_REFRESH_SEC]_vars

\* C2: the running daemon is inside a system call that waits for an external
\* event only at the ring wait at the top of the loop.
C2_BlocksOnlyInRingWait == Blocked => pc = "wait"

\* C3: a termination signal delivered to the running daemon makes the loop
\* return at its next wake: while the signal is pending the daemon is never
\* inside a call that waits, neither the ring wait (the signal's completion
\* ends it) nor any other.
C3_SignalStopsTheLoop == (Running /\ sigPending) => ~Blocked

\* C4: an override written by --set for the running daemon more than one tick
\* period ago is in force: the daemon is in manual mode with the target and
\* the duration of the latest --set.
C4_SetAdoptedWithinOneTick ==
    (Running /\ hist.setTemp # 0 /\ now - hist.setAt > TEMP_UPDATE_SEC)
    => /\ st.manual_mode
       /\ st.manual_target_temp = hist.setTemp
       /\ st.manual_duration_min = hist.setDur

\* C5: a resume requested of the daemon in manual mode more than one tick
\* period ago, by an override file with active = false or by deleting the
\* file, has ended manual mode.
C5_ResumeEndsManualWithinOneTick ==
    (Running /\ hist.resumeAt # 0 /\ now - hist.resumeAt > TEMP_UPDATE_SEC)
    => ~st.manual_mode

\* C6: when the daemon waits at the top of the loop and no change of
\* override.json is unprocessed, override.json exists iff the daemon is in
\* manual mode.
C6_FileIffManualMode ==
    (/\ pc = "wait"
     /\ CqEmpty(cq)
     /\ inotifyQ = << >>
     /\ hist.resumeKind # "delete")
    => (overrideFile.exists <=> st.manual_mode)

C9_PhaseTransitions ==
    [][wfs'.phase # wfs.phase =>
         \/ /\ wfs.phase = WEATHER_IDLE
            /\ wfs'.phase = WEATHER_READING_POINTS
            /\ pc = "tick"
         \/ /\ wfs.phase = WEATHER_READING_POINTS
            /\ wfs'.phase = WEATHER_READING_FORECAST
            /\ pc = "waitpid"
            /\ child.state = "zombie"
         \/ /\ wfs.phase # WEATHER_IDLE
            /\ wfs'.phase = WEATHER_IDLE
            /\ \/ pc = "waitpid" /\ child.state = "zombie"
               \/ pc = "tick" /\ hist'.lastRead = "error"
               \/ pc' = "stopped"]_vars

\* C9 witness: a fetch that went through both phases and delivered a forecast
C9_FetchCompleted ==
    /\ hist.lastRead = "done"
    /\ wfs.phase = WEATHER_IDLE
    /\ ~st.weather.has_error

\* C10: when the child waited for at end of file failed (exit status not 0,
\* or no body), the step that reaps it leaves no child and no pipe, phase
\* IDLE, and an error result in force; no forecast child exists.
C10_FailedChildEndsFetch ==
    [][(/\ pc = "waitpid"
        /\ pc' = "wait"
        /\ ~(child.exit_ok /\ wfs.buf_size > 0))
       => /\ child' = NoChild
          /\ wfs'.child_pid = 0
          /\ wfs'.pipe_fd = -1
          /\ pipe' = NoPipe
          /\ wfs'.phase = WEATHER_IDLE
          /\ st'.weather.has_error
          /\ cacheFile'.error
          /\ hist'.lastRead = "failed"]_vars

\* C10 witness: a failed child has been reaped and its error result is in force
C10_FailureDelivered ==
    /\ hist.lastRead = "failed"
    /\ wfs.phase = WEATHER_IDLE
    /\ child = NoChild
    /\ st.weather.has_error

\* C11: when weather_async_read finds no more data and no end of file, the
\* iteration leaves the phase, the child and the pipe of the fetch as they
\* were and delivers no result: the weather in memory is what the iteration
\* had before the read, and the cache file is untouched.  (A fetch started
\* in the same iteration, before the read, is in its first phase.)
C11_EagainLeavesFetchAlone ==
    [][(pc = "tick" /\ hist'.lastRead = "eagain")
       => /\ pc' = "wait"
          /\ wfs'.phase = IF wfs.phase = WEATHER_IDLE
                          THEN WEATHER_READING_POINTS ELSE wfs.phase
          /\ wfs'.child_pid > 0
          /\ wfs'.pipe_fd >= 0
          /\ wfs.phase # WEATHER_IDLE =>
                /\ wfs'.child_pid = wfs.child_pid
                /\ wfs'.pipe_fd = wfs.pipe_fd
                /\ child' = child
          /\ st'.weather = ReloadConfig(World, ev).st.weather
          /\ cacheFile' = cacheFile
          /\ hist'.lastDone = hist.lastDone]_vars

\* C11 witness: an iteration read part of the response and the fetch goes on
C11_PartialRead ==
    /\ pc = "wait"
    /\ hist.lastRead = "eagain"
    /\ wfs.phase # WEATHER_IDLE
    /\ wfs.buf_size > 0
    /\ child.state = "running"

\* C12: whenever the loop has returned with a fetch in flight, the child was
\* killed and reaped, its pipe closed and its buffer freed, each before the
\* gamma backend was freed.
C12_FetchEndedBeforeBackendFreed ==
    (pc = "stopped" /\ hist.fetching)
    => /\ Precedes("kill", "gamma_free")
       /\ Precedes("waitpid", "gamma_free")
       /\ Precedes("close_pipe", "gamma_free")
       /\ Precedes("free_buf", "gamma_free")

\* C13: after a termination signal has ended the loop, daemon_run has
\* restored the saved ramps through the backend, then freed the backend, then
\* removed the PID file, in that order, when it returns.
C13_RestoreThenFreeThenRemovePid ==
    (pc = "stopped" /\ hist.calls # << >> /\ hist.calls[1] = "read_signalfd")
    => /\ Precedes("gamma_restore", "gamma_free")
       /\ Precedes("gamma_free", "remove_pid")
       /\ gamma = NoGamma
       /\ ~pidFile

\* C13 witness: the daemon was ended by a signal, with an active override on
\* disk
C13_StoppedBySignal ==
    /\ pc = "stopped"
    /\ hist.calls # << >>
    /\ hist.calls[1] = "read_signalfd"
    /\ hist.calls[Len(hist.calls)] = "remove_pid"
    /\ overrideFile.active

\* C14: an iteration whose wake delivered a termination signal together with
\* a timer, weather or inotify completion ends the loop and does nothing
\* else: override.json and the cache file are left as they are, no override
\* is adopted, no fetch is started or read, no temperature is computed and
\* gamma_set is not called.
C14_SignalFirst ==
    [][(/\ pc = "tick"
        /\ pc' # pc
        /\ ev.got_signal
        /\ \/ ev.timer_expired
           \/ ev.weather_ready
           \/ ev.config_changed
           \/ ev.override_changed)
       => /\ pc' = "stopped"
          /\ overrideFile' = overrideFile
          /\ cacheFile' = cacheFile
          /\ ~hist'.adopted
          /\ hist'.lastRead = "none"
          /\ hist'.temp = 0
          /\ wfs'.phase = WEATHER_IDLE
          /\ child' \in {child, NoChild}
          /\ \A i \in DOMAIN hist'.calls : hist'.calls[i] # "gamma_set"]_vars

\* C14 witness: a signal ended the loop in the iteration that also saw a
\* new override, which stays as the CLI wrote it
C14_SignalWithOverrideChange ==
    /\ pc = "stopped"
    /\ hist.atSignal.got_signal
    /\ hist.atSignal.override_changed
    /\ overrideFile.active
    /\ overrideFile.start_temp = 0

C16_EntryIntoManualMode ==
    [][(pc = "tick" /\ pc' # pc /\ ~ev.got_signal /\ ev.override_changed)
       => LET od      == config_load_override(overrideFile)
              entered == hist'.adopted
          IN  /\ entered <=> (od.active /\ od.issued_at # st.manual_issued_at)
              /\ ~entered => (st'.manual_mode => st.manual_mode)
              /\ entered =>
                    /\ st'.manual_mode
                    /\ st'.manual_issued_at = od.issued_at
                    /\ st'.manual_start_time = od.issued_at
                    /\ st'.manual_target_temp = od.target_temp
                    /\ st'.manual_start_temp =
                          IF st.last_temp_valid THEN st.last_temp
                          ELSE solar_temperature(now, sun, st'.weather)]_vars

\* C16 witness: an override change made the daemon enter manual mode, the
\* transition starting at the override's issued_at from a temperature that
\* is not the target
C16_EnteredManualMode ==
    /\ pc = "wait"
    /\ hist.adopted
    /\ st.manual_mode
    /\ st.manual_start_time = st.manual_issued_at
    /\ st.manual_start_temp >= TEMP_NIGHT
    /\ st.manual_target_temp # st.manual_start_temp

\* C17: when the daemon adopts an override whose start_temp on disk is 0, in
\* the loop or when daemon_run recovers it, override.json afterwards holds
\* the same active, target_temp, duration_minutes and issued_at, and as
\* start_temp the start temperature the daemon uses; and a daemon that starts
\* during the transition of an override with a start_temp on disk continues
\* from that start temperature and leaves the file as it is.
C17_StartTempPersisted ==
    [][LET od     == config_load_override(overrideFile)
           stale  == now - od.issued_at >= od.duration_minutes * 60
           adopts == \/ pc = "tick" /\ pc' # pc /\ hist'.adopted
                     \/ pc = "stopped" /\ pc' = "wait" /\ od.active /\ ~stale
       IN  /\ (adopts /\ od.start_temp = 0)
               => /\ overrideFile'.exists
                  /\ overrideFile'.active = od.active
                  /\ overrideFile'.target_temp = od.target_temp
                  /\ overrideFile'.duration_minutes = od.duration_minutes
                  /\ overrideFile'.issued_at = od.issued_at
                  /\ overrideFile'.start_temp = st'.manual_start_temp
                  /\ overrideFile'.start_temp # 0
           /\ (pc = "stopped" /\ pc' = "wait" /\ od.active /\ ~stale
                  /\ od.start_temp # 0)
               => /\ st'.manual_mode
                  /\ st'.manual_start_temp = od.start_temp
                  /\ st'.manual_start_time = od.issued_at
                  /\ st'.manual_target_temp = od.target_temp
                  /\ st'.manual_duration_min = od.duration_minutes
                  /\ overrideFile' = overrideFile]_vars

\* C17 witness: the daemon was restarted during a transition and goes on from
\* the start temperature that its previous run had written to the file
C17_RestartedInTransition ==
    /\ pc = "wait"
    /\ hist.recovered
    /\ st.manual_mode
    /\ st.manual_duration_min > 0
    /\ now < st.manual_start_time + st.manual_duration_min * 60
    /\ st.manual_start_temp = overrideFile.start_temp

\* C18: an iteration that finds the daemon in manual mode and processes no
\* override change leaves manual mode exactly when the transition duration
\* has elapsed and now >= manual_resume_time; it then unlinks override.json
\* and the temperature it computes and applies is the solar one.
C18_AutoResume ==
    [][LET od  == config_load_override(overrideFile)
           due == /\ now - st.manual_start_time >= st.manual_duration_min * 60
                  /\ now >= st.manual_resume_time
       IN  (/\ pc = "tick"
            /\ pc' = "wait"
            /\ st.manual_mode
            /\ ~(ev.override_changed
                   /\ (~od.active \/ od.issued_at # st.manual_issued_at)))
           => IF due
              THEN /\ ~st'.manual_mode
                   /\ ~overrideFile'.exists
                   /\ hist'.temp = solar_temperature(now, sun, st'.weather)
                   /\ st'.last_temp = hist'.temp
                   /\ gamma'.temp = hist'.temp
              ELSE /\ st'.manual_mode
                   /\ overrideFile' = overrideFile]_vars

\* C18 witness: the daemon has left manual mode by auto-resume, after the
\* transition and the resume time, and shows the solar temperature
C18_AutoResumed ==
    /\ pc = "wait"
    /\ hist.autoResumed
    /\ ~st.manual_mode
    /\ ~overrideFile.exists
    /\ hist.tnow >= st.manual_resume_time
    /\ gamma.temp = solar_temperature(hist.tnow, sun, st.weather)
    /\ gamma.temp # st.manual_target_temp

\* C19: an iteration that ends in manual mode with the transition duration
\* elapsed has computed the target temperature of the override in force,
\* and that is what the backend shows, whatever the sun and the weather.
C19_HoldsTarget ==
    (/\ pc = "wait"
     /\ st.manual_mode
     /\ hist.temp # 0
     /\ hist.tnow - st.manual_start_time >= st.manual_duration_min * 60)
    => /\ hist.temp = st.manual_target_temp
       /\ st.last_temp = st.manual_target_temp
       /\ gamma.temp = st.manual_target_temp

\* C19 witness: a transition of two minutes is over and the daemon holds the
\* target
C19_HoldingAfterTransition ==
    /\ pc = "wait"
    /\ st.manual_mode
    /\ st.manual_duration_min > 0
    /\ hist.tnow >= st.manual_start_time + st.manual_duration_min * 60
    /\ gamma.temp = st.manual_target_temp
    /\ gamma.temp # solar_temperature(hist.tnow, sun, st.weather)

\* C20: the temperature last handed to meridian_set_temperature lies in
\* [TEMP_MIN, TEMP_MAX], whatever override.json holds (no temperature is
\* handed over once the original ramps are restored).
C20_KelvinInRange ==
    gamma.temp = 0 \/ (gamma.temp >= TEMP_MIN /\ gamma.temp <= TEMP_MAX)

\* C21: more than one tick period after the CLI's refresh rewrote the cache for
\* the running daemon, the daemon's weather is the one the CLI wrote.
C21_RefreshSeenByNextTick ==
    (Running /\ hist.refreshAt # 0 /\ now - hist.refreshAt > TEMP_UPDATE_SEC)
    => /\ ~st.weather.has_error
       /\ st.weather.cloud_cover = hist.refreshCloud
       /\ st.weather.fetched_at = hist.refreshAt

\* C22: a solar temperature computed while the daemon's weather has has_error
\* set is the one computed for cloud_cover 0.
C22_ErrorMeansClearSky ==
    (/\ pc = "wait"
     /\ hist.temp # 0
     /\ ~st.manual_mode
     /\ st.weather.has_error)
    => hist.temp = solar_temperature(hist.tnow, sun,
                                     [st.weather EXCEPT !.cloud_cover = 0])

\* C23: when daemon_run reaches the first wait of the loop, the temperature
\* the backend shows is the one the loop would compute at that instant: the
\* manual temperature if an override was recovered, the solar one otherwise.
C23_StartupShowsLoopTemperature ==
    [][(pc = "stopped" /\ pc' = "wait")
       => gamma'.temp =
            IF st'.manual_mode
            THEN calculate_manual_temp(st'.manual_start_temp,
                                       st'.manual_target_temp,
                                       st'.manual_start_time,
                                       st'.manual_duration_min, now')
            ELSE solar_temperature(now', sun, st'.weather)]_vars

\* C26: daemon_run clears a persisted active override, and starts in solar
\* mode, exactly when its duration has elapsed; an active override still
\* running puts the daemon in manual mode with the target, the duration, the
\* issue time and the start time of the file and with the resume time
\* computed now; an inactive override is left as it is.
C26_StartupRecovery ==
    [][(pc = "stopped" /\ pc' = "wait" /\ overrideFile.exists)
       => IF ~overrideFile.active
          THEN ~st'.manual_mode /\ overrideFile' = overrideFile
          ELSE IF now - overrideFile.issued_at >= overrideFile.duration_minutes * 60
          THEN ~st'.manual_mode /\ ~overrideFile'.exists
          ELSE /\ st'.manual_mode
               /\ overrideFile'.exists
               /\ st'.manual_target_temp = overrideFile.target_temp
               /\ st'.manual_duration_min = overrideFile.duration_minutes
               /\ st'.manual_issued_at = overrideFile.issued_at
               /\ st'.manual_start_time = overrideFile.issued_at
               /\ st'.manual_resume_time = next_transition_resume(now, sun)]_vars

\* C26 witness: the daemon has started after the duration of the persisted
\* override was over, and has cleared it
C26_ClearedAtStartup ==
    /\ pc = "wait"
    /\ hist.startup = "cleared"
    /\ now > StartTime
    /\ ~st.manual_mode
    /\ ~overrideFile.exists

\* C27: in daemon_run the hardening calls come after each call that opens a
\* persistent descriptor (signalfd, backend, inotify, ring) and before the
\* loop.
C27_HardeningAfterDescriptors ==
    (pc = "wait" /\ hist.startup # "none")
    => \A h \in {"prctl", "landlock_install_sandbox", "seccomp_install_filter"} :
         /\ \A o \in {"create_signalfd_masked", "gamma_init",
                       "create_inotify_watch", "uring_init"} : Precedes(o, h)
         /\ Precedes(h, "event_loop_uring")

\* C24: the signalfd is created before the first probe of the backend, and
\* while a signal is pending in the retry phase the daemon starts no further
\* probe after its sleep, writes no PID file and applies no temperature.
C24_SignalEndsProbing ==
    /\ [](pc \in {"probe", "probe_check", "probe_sleep"}
          => /\ hist.calls # << >>
             /\ hist.calls[1] = "create_signalfd_masked")
    /\ [][(sigPending /\ pc \in {"probe", "probe_check", "probe_sleep"})
          => /\ ~(pc = "probe_sleep" /\ pc' = "probe")
             /\ ~pidFile'
             /\ gamma'.temp = 0]_vars

\* C25: gamma_init is called at most GAMMA_INIT_MAX_RETRIES times, with a
\* sleep of 500 ms before each call but the first; when the last of them
\* fails daemon_run ends with exit(1), and a daemon_run ended so has written
\* no PID file, applied no temperature and not entered the loop.
C25_ProbesBounded ==
    /\ [](/\ boot.probes <= GAMMA_INIT_MAX_RETRIES
          /\ pc \in {"probe_check", "probe_sleep"}
               => boot.slept = RetryMs * (boot.probes - 1)
          /\ pc = "probe" => boot.slept = RetryMs * boot.probes
          /\ boot.exit = "fatal"
               => /\ pc = "stopped"
                  /\ boot.probes = GAMMA_INIT_MAX_RETRIES
                  /\ ~pidFile
                  /\ gamma = NoGamma)
    /\ [][(pc = "probe" /\ pc' # pc /\ ~gamma'.open
           /\ boot'.probes = GAMMA_INIT_MAX_RETRIES)
          => /\ pc' = "stopped"
             /\ boot'.exit = "fatal"
             /\ ~pidFile']_vars

\* C25 witness: sixty probes have failed and daemon_run has given up
C25_GaveUp ==
    /\ pc = "stopped"
    /\ boot.exit = "fatal"
    /\ boot.probes = 60
    /\ boot.slept = 59 * 500
    /\ ~pidFile
    /\ ~gamma.open

\* the backends in the order meridian_init_card is to try them
BackendOrder == << "wayland", "gnome", "drm", "x11" >>

\* the init of backend b would succeed on the machine: the Wayland backends
\* only in a Wayland session, DRM only with a CRTC of gamma_size > 1
WouldSucceed(b) ==
    CASE b = "wayland" -> mer.env.wayland_display /\ mer.env.wl.ok
      [] b = "gnome"   -> mer.env.wayland_display /\ mer.env.gnome.ok
      [] b = "drm"     -> /\ mer.env.drm.ok
                          /\ \E i \in DOMAIN mer.env.drm.sizes :
                                mer.env.drm.sizes[i] > 1
      [] OTHER         -> mer.env.x11.ok

\* the probe of backend b
ProbeOf(b) ==
    CASE b = "wayland" -> Op("meridian_wl_init")
      [] b = "gnome"   -> Op("meridian_gnome_init")
      [] b = "drm"     -> Op("meridian_drm_init")
      [] OTHER         -> Op("meridian_x11_init")

UsableCrtcs == {i \in DOMAIN mer.crtcs : Usable(mer.backend, mer.crtcs[i])}

\* C29: meridian_set_temperature attempts every usable CRTC of the handle,
\* also after the write of one of them has failed, and returns MERIDIAN_OK
\* exactly when at least one CRTC was written: an error when none was.
C29_SuccessIffWritten ==
    mer.last = "set_temperature" =>
        /\ mer.attempted = UsableCrtcs
        /\ mer.ret = "MERIDIAN_OK" <=> mer.written # {}

\* the calls of meridian_free that release a resource of the backend: the
\* saved ramps, the device fd, the display connection, the handle
Releases == {"free_saved", "close_device", "close_display", "free_handle"}

\* C30: when meridian_free has returned, the saved ramp of every CRTC that
\* had one has been written back, and each of these writes was made before
\* the first release of a saved ramp, of the device, of the display
\* connection or of the handle.
C30_RestoreBeforeRelease ==
    mer.last = "free" =>
        \A i \in DOMAIN mer.crtcs :
            mer.crtcs[i].saved =>
                \E w \in DOMAIN mer.calls :
                    /\ mer.calls[w] = OpAt("write_saved", i)
                    /\ \A r \in DOMAIN mer.calls :
                          mer.calls[r].op \in Releases => w < r

\* C30 witness: a DRM handle with two CRTCs, the second without a gamma
\* ramp, was used and freed: one ramp written back, then released, then
\* the device closed
C30_DrmHandleFreed ==
    /\ mer.last = "free"
    /\ Len(mer.crtcs) = 2
    /\ mer.crtcs[1].saved
    /\ ~mer.crtcs[2].saved
    /\ mer.calls = << OpAt("write_saved", 1), OpAt("free_saved", 1),
                      Op("close_device"), Op("free_handle") >>

\* C31: while a handle lives, from meridian_init to meridian_free, the ramp
\* saved for a CRTC at init stays what it was: no meridian_set_temperature
\* and no meridian_restore changes which CRTCs have a saved ramp or what the
\* saved ramp holds, the ramp the display had before init.
C31_SavedRampsKept ==
    /\ [](mer.backend # "none"
            => \A i \in DOMAIN mer.crtcs :
                  mer.crtcs[i].saved_ramp
                      = (IF mer.crtcs[i].saved THEN "original" ELSE "none"))
    /\ [][(mer.backend # "none" /\ mer'.backend # "none")
            => /\ DOMAIN mer'.crtcs = DOMAIN mer.crtcs
               /\ \A i \in DOMAIN mer.crtcs :
                     /\ mer'.crtcs[i].saved = mer.crtcs[i].saved
                     /\ mer'.crtcs[i].saved_ramp = mer.crtcs[i].saved_ramp]_vars

\* C31 witness: an X11 handle whose first CRTC was written with a
\* temperature while the write of the second failed: the display shows the
\* temperature ramp on the first, and both saved ramps are the original ones
C31_WrittenAndStillSaved ==
    /\ mer.backend = "x11"
    /\ mer.last = "set_temperature"
    /\ mer.written = {1}
    /\ mer.attempted = {1, 2}
    /\ mer.crtcs[1].display = "temperature"
    /\ mer.crtcs[2].display = "original"
    /\ mer.crtcs[1].saved_ramp = "original"
    /\ mer.crtcs[2].saved_ramp = "original"

\* the resume points next_transition_resume chooses from at instant t: 15
\* minutes before the dawn and the dusk window of the day of t, and before
\* the dawn window of the day after
ResumeCandidates(t, eph) ==
    LET midnight == (t \div SECONDS_PER_DAY) * SECONDS_PER_DAY
    IN  {midnight + eph.rise - (DAWN_DURATION \div 2) * 60 - 15 * 60,
         midnight + eph.set - (DUSK_DURATION \div 2) * 60 - 15 * 60,
         midnight + SECONDS_PER_DAY + eph.rise
             - (DAWN_DURATION \div 2) * 60 - 15 * 60}

\* C32: next_transition_resume(now, lat, lon) is strictly greater than now:
\* with sun times it is the earliest of the three resume points that lies
\* strictly after now, without them it is now + 24 h.
C32_ResumeInTheFuture ==
    hist.calls = << "next_transition_resume" >> =>
        /\ st.manual_resume_time > now
        /\ ~sun.valid => st.manual_resume_time = now + SECONDS_PER_DAY
        /\ sun.valid =>
              /\ st.manual_resume_time \in ResumeCandidates(now, sun)
              /\ \A c \in ResumeCandidates(now, sun) :
                    c > now => st.manual_resume_time <= c

\* C33: a damaged override.json (empty, more than 4 KiB, not JSON) counts as
\* an absent one, whatever its text says: at startup nothing is recovered
\* and the file stays; in the loop no override is adopted, a daemon in manual
\* mode resumes and unlinks the file, a daemon in solar mode keeps its state
\* and the file.  A damaged weather_cache.json (empty, more than 8 KiB, not
\* JSON) gives the weather of an erroneous cache at startup.  In all these
\* cases the daemon goes on to wait in its loop (a termination signal apart).
C33_DamagedFilesCountAsAbsent ==
    [][/\ (pc = "stopped" /\ pc' # "stopped"
              /\ Damaged(overrideFile, MAX_OVERRIDE_FILE_SIZE))
           => /\ pc' = "wait"
              /\ ~st'.manual_mode
              /\ hist'.startup = "solar"
              /\ ~hist'.recovered
              /\ overrideFile' = overrideFile
       /\ (pc = "stopped" /\ pc' # "stopped"
              /\ Damaged(cacheFile, MAX_WEATHER_FILE_SIZE))
           => /\ pc' = "wait"
              /\ st'.weather
                   = [cloud_cover |-> 0, fetched_at |-> 0, has_error |-> TRUE]
              /\ cacheFile' = cacheFile
       /\ (pc = "tick" /\ pc' # "tick" /\ ev.override_changed
              /\ ~ev.got_signal
              /\ Damaged(overrideFile, MAX_OVERRIDE_FILE_SIZE))
           => /\ pc' \in {"wait", "waitpid"}
              /\ ~hist'.adopted
              /\ ~st'.manual_mode
              /\ st.manual_mode
                    => ~overrideFile'.exists /\ st'.manual_issued_at = 0
              /\ ~st.manual_mode
                    => /\ overrideFile' = overrideFile
                       /\ st'.manual_issued_at = st.manual_issued_at
                       /\ st'.manual_target_temp = st.manual_target_temp
      ]_vars

\* C33 witness: the daemon started on a damaged cache; in this iteration it
\* read a damaged override.json, and it has no override and no file now (it
\* was in manual mode and resumed); it waits in its loop
C33_ManualLeftOnDamagedFile ==
    /\ pc = "wait"
    /\ Damaged(cacheFile, MAX_WEATHER_FILE_SIZE)
    /\ ~st.manual_mode
    /\ st.manual_issued_at = 0
    /\ ~overrideFile.exists
    /\ hist.rejected
    /\ ~hist.autoResumed
    /\ gamma.temp # TEMP_MIN

\* gamma_set is among the calls of the iteration that has just ended
GammaSetCalled == \E i \in DOMAIN hist.calls : hist.calls[i] = "gamma_set"

\* C34: an iteration of the loop calls gamma_set exactly when the loop has
\* not recorded an applied temperature yet or the target it computed differs
\* from the last one applied; after the iteration the remembered last
\* temperature is the computed target.
C34_AppliedIffChanged ==
    [][(pc \in {"tick", "waitpid"} /\ pc' = "wait")
       => /\ GammaSetCalled'
               <=> (~st.last_temp_valid \/ hist'.temp # st.last_temp)
          /\ st'.last_temp_valid
          /\ st'.last_temp = hist'.temp
          /\ GammaSetCalled' => gamma'.temp = hist'.temp
          /\ ~GammaSetCalled' => gamma'.temp = gamma.temp]_vars

\* C34 witness: an iteration in manual mode computed the target that was
\* already applied and left the display alone
C34_UnchangedTargetNotApplied ==
    /\ pc = "wait"
    /\ st.manual_mode
    /\ hist.temp # 0
    /\ hist.temp = st.last_temp
    /\ st.last_temp_valid
    /\ ~GammaSetCalled
    /\ gamma.temp = hist.temp

\* C35: the daemon never destroys an override it has not seen: a step of the
\* daemon that rewrites or unlinks an override.json holding an active
\* override either reads the file in that step (daemon_run's recovery, an
\* iteration with override_changed) or finds in it the issued_at it loaded
\* last.
C35_NoOverrideLostUnobserved ==
    [][(/\ ops' = ops
        /\ overrideFile' # overrideFile
        /\ overrideFile.exists
        /\ overrideFile.active)
       => \/ pc = "stopped"
          \/ pc = "tick" /\ ev.override_changed
          \/ overrideFile.issued_at = st.manual_issued_at]_vars

\* C36: the daemon's own rewrite of override.json reaches its inotify watch,
\* and reading the file again changes nothing: an iteration in manual mode
\* that reloads an active override with the issued_at it follows adopts
\* nothing, keeps manual_start_time, manual_start_temp and
\* manual_resume_time, and does not write the file again (it unlinks it only
\* when the auto-resume of that iteration is due).
C36_OwnRewriteIdempotent ==
    [][/\ (ops' = ops /\ overrideFile' # overrideFile /\ overrideFile'.exists
              /\ inotifyOk)
           => InQueue(inotifyQ', "override")
       /\ (/\ pc = "tick" /\ pc' # "tick"
           /\ ev.override_changed /\ ~ev.got_signal
           /\ st.manual_mode
           /\ overrideFile.exists /\ overrideFile.active
           /\ overrideFile.issued_at = st.manual_issued_at)
           => /\ ~hist'.adopted
              /\ st'.manual_start_time = st.manual_start_time
              /\ st'.manual_start_temp = st.manual_start_temp
              /\ st'.manual_resume_time = st.manual_resume_time
              /\ st'.manual_target_temp = st.manual_target_temp
              /\ IF hist'.autoResumed
                 THEN ~overrideFile'.exists
                 ELSE overrideFile' = overrideFile /\ st'.manual_mode]_vars

\* C36 witness: the daemon has read its own rewrite of override.json, the
\* file with the start temperature it filled in, and goes on as before with
\* nothing left in the inotify queue
C36_OwnRewriteRead ==
    /\ pc = "wait"
    /\ hist.reread
    /\ ~hist.adopted
    /\ st.manual_mode
    /\ overrideFile.exists
    /\ overrideFile.start_temp = st.manual_start_temp
    /\ overrideFile.start_temp # 0
    /\ inotifyQ = << >>

\* C37: at most one curl child of the daemon exists at any time.  A step in
\* which a child is spawned is either the start of a fetch, taken in phase
\* IDLE with no child of the daemon alive or un-reaped, or the spawn of the
\* forecast child, taken in the step that reaps the points child; and the
\* child that exists while the daemon runs is the one the fetch state names.
C37_ChildSpawned ==
    /\ child'.state = "running"
    /\ \/ child.state # "running"
       \/ child'.spawned # child.spawned
       \/ wfs'.phase # wfs.phase

C37_AtMostOneChild ==
    [][/\ C37_ChildSpawned
          => \/ /\ pc = "tick"
                /\ wfs.phase = WEATHER_IDLE
                /\ child = NoChild
                /\ wfs'.phase = WEATHER_READING_POINTS
             \/ /\ pc = "waitpid"
                /\ wfs.phase = WEATHER_READING_POINTS
                /\ child.state = "zombie"
                /\ wfs'.phase = WEATHER_READING_FORECAST
       /\ (pc' # "stopped" /\ child' # NoChild) => wfs'.phase # WEATHER_IDLE]_vars

\* C37 witness: the forecast child runs, spawned after the points child was
\* reaped, and the loop waits for its output
C37_ForecastChildAlone ==
    /\ pc = "wait"
    /\ wfs.phase = WEATHER_READING_FORECAST
    /\ child.state = "running"
    /\ wfs.child_pid > 0
    /\ polls.w > 0

\* C38: wherever the loop waits in the ring the fetch state is consistent:
\* phase # IDLE iff pipe_fd >= 0 iff child_pid > 0; a poll armed on the
\* weather pipe belongs to a fetch whose child exists and is not reaped; an
\* IDLE fetcher holds no descriptor, no child and no buffer; and every
\* spawned child is reaped: no child of the daemon is left when the daemon
\* has stopped.
C38_FetchStateConsistent ==
    /\ pc = "wait"
       => /\ (wfs.phase # WEATHER_IDLE) <=> (wfs.pipe_fd >= 0)
          /\ (wfs.pipe_fd >= 0) <=> (wfs.child_pid > 0)
          /\ (wfs.child_pid > 0) <=> (child # NoChild)
          /\ polls.w > 0 => wfs.phase # WEATHER_IDLE /\ child # NoChild
          /\ wfs.phase = WEATHER_IDLE
                => wfs = weather_async_init /\ pipe = NoPipe
    /\ pc = "stopped" => child = NoChild

\* C38 witness: a fetch has run to its end, both children were reaped, and
\* the loop waits with an IDLE fetcher that holds nothing
C38_IdleAfterFetch ==
    /\ pc = "wait"
    /\ wfs = weather_async_init
    /\ child = NoChild
    /\ polls.w = 0
    /\ st.weather.fetched_at > StartTime

\* C39: once the PID file has been written and a startup temperature
\* applied, daemon_run does not end (by a termination signal, by a wait
\* error in the loop, by a failure of the io_uring setup) without the
\* original gamma restored and the PID file removed.
C39_EveryExitCleansUp ==
    (pc = "stopped" /\ hist.calls # << >>)
    => /\ gamma.temp = 0
       /\ ~pidFile

\* C40: at each wait at the top of the loop at most one poll registration is
\* outstanding per monitored descriptor (inotify, signalfd, weather pipe) and
\* at most one timeout, so that one readiness event leaves at most one
\* completion per descriptor in the ring.
C40_OnePollPerDescriptor ==
    pc = "wait"
    => /\ polls.in <= 1
       /\ polls.sig <= 1
       /\ polls.w <= 1
       /\ cq.in <= 1

====
